---- MODULE Spec2Model ----
(***************************************************************************)
(* Folio pagination: the handler registry (measure / findSplitPoint) and   *)
(* the page-filling loop of paginate().  Lengths are pixels, modelled as   *)
(* integers; the two real-valued thresholds of the code (0.6 * height and  *)
(* height / 3) are compared after cross-multiplication.                    *)
(***************************************************************************)
EXTENDS Integers, Sequences, FiniteSets, TLC

VARIABLES blocks, resolved, i, pages, currentPage, remaining, pc, result,
          probe, split, flatItems, pageStartIndex, state, folio

vars == <<blocks, resolved, i, pages, currentPage, remaining, pc, result,
          probe, split, flatItems, pageStartIndex, state, folio>>

-----------------------------------------------------------------------------
(* Bounds of the model *)

\* longest sequence of top-level elements given to paginate
MaxBlocks == 3
\* largest line count of a block handed to a line resolver on its own
MaxLines == 7
\* largest number of rows / items handed to a child resolver on its own
MaxUnits == 5
\* largest available height (in steps of AvailStep) handed to a resolver
MaxAvail == 8

-----------------------------------------------------------------------------
(* Generic helpers *)

Has(r, f) == f \in DOMAIN r

Max(a, b) == IF a >= b THEN a ELSE b

Min(a, b) == IF a <= b THEN a ELSE b

\* JavaScript's absent value: a missing array element, or a null result
Undefined == [undefined |-> TRUE]

Null == [null |-> TRUE]

RECURSIVE Sum(_)
\* sum of a sequence of numbers
Sum(s) == IF s = <<>> THEN 0 ELSE Head(s) + Sum(Tail(s))

\* Array.prototype.slice(start, end) with 0-based, end-exclusive indices
slice(s, start, end) == SubSeq(s, start + 1, end)

RECURSIVE Concat(_)
Concat(ss) == IF ss = <<>> THEN <<>> ELSE Head(ss) \o Concat(Tail(ss))

\* Math.ceil(a / b) for b > 0
Ceil(a, b) == -((-a) \div b)

-----------------------------------------------------------------------------
(* The DOM elements paginate reads.  An element carries what the code asks *)
(* of the host: tag, class, offsetHeight, computed margins/paddings, the   *)
(* break-control flags and its child elements.                             *)

ATOMIC_TAGS == {"IMG", "HR", "SVG", "CANVAS", "VIDEO", "AUDIO", "IFRAME"}

HEADING_TAGS == {"H1", "H2", "H3", "H4", "H5", "H6"}

El(tag, h, mt, mb) ==
  [id |-> 0, tag |-> tag, className |-> "", offsetHeight |-> h,
   scrollHeight |-> h, marginTop |-> mt, marginBottom |-> mb,
   breakBefore |-> FALSE, keepTogether |-> FALSE, hasMedia |-> FALSE,
   textEmpty |-> FALSE, lineHeight |-> 20, lines |-> 1,
   paddingTop |-> 0, paddingBottom |-> 0, hasThead |-> FALSE,
   theadOffsetHeight |-> 0, nestedOffset |-> 0, children |-> <<>>]

WithId(el, id) == [el EXCEPT !.id = id]

\* child elements numbered 1..n in document order
Numbered(els) == [k \in 1..Len(els) |-> WithId(els[k], k)]

-----------------------------------------------------------------------------
(* BaseHandler: what every handler's measure starts from *)

Extend(r, more) ==
  [f \in DOMAIN r \cup DOMAIN more |-> IF f \in DOMAIN more THEN more[f] ELSE r[f]]

Without(r, fields) == [f \in DOMAIN r \ fields |-> r[f]]

shouldForceBreakBefore(el) == el.breakBefore

getCSSBreakInside(el) == IF el.keepTogether THEN "avoid" ELSE "auto"

\* BaseHandler.measure; canSplit is this.canSplit({}, options), which every
\* handler answers with false for the empty block
BaseMeasure(el, type) ==
  [element |-> el, type |-> type, height |-> el.offsetHeight,
   marginTop |-> el.marginTop, marginBottom |-> el.marginBottom,
   canSplit |-> FALSE, forceBreakBefore |-> shouldForceBreakBefore(el),
   isHeading |-> FALSE]

\* HandlerRegistry.isEmpty
isEmpty(el) ==
  IF el.tag \in ATOMIC_TAGS THEN FALSE
  ELSE IF el.hasMedia THEN FALSE
  ELSE el.textEmpty

AtomicCanHandle(el) ==
  \/ el.tag \in ATOMIC_TAGS
  \/ el.className \in {"math", "katex", "mathjax"}
  \/ el.className \in {"mermaid", "diagram", "chart"}

\* HandlerRegistry.getHandler: first handler in priority order that accepts
\* the element, the container handler otherwise
getHandler(el) ==
  IF AtomicCanHandle(el) THEN "atomic"
  ELSE IF el.tag \in HEADING_TAGS THEN "heading"
  ELSE IF el.tag = "P" THEN "prose"
  ELSE IF el.tag \in {"PRE", "CODE"} THEN "code"
  ELSE IF el.tag = "TABLE" THEN "table"
  ELSE IF el.tag \in {"UL", "OL"} THEN "list"
  ELSE "container"

AtomicMeasure(el, options) == BaseMeasure(el, "atomic")

headingLevelOf(tag) ==
  CASE tag = "H1" -> 1 [] tag = "H2" -> 2 [] tag = "H3" -> 3
    [] tag = "H4" -> 4 [] tag = "H5" -> 5 [] OTHER -> 6

HeadingMeasure(el, options) ==
  Extend(BaseMeasure(el, "heading-group"),
         [isHeading |-> TRUE, headingLevel |-> headingLevelOf(el.tag),
          canSplit |-> FALSE,
          forceBreakBefore |-> (el.tag = "H1" \/ shouldForceBreakBefore(el))])

estimateLineCount(el, lineHeight) ==
  IF lineHeight <= 0 THEN 1 ELSE Ceil(el.scrollHeight, lineHeight)

ProseMeasure(el, options) ==
  IF el.hasMedia THEN BaseMeasure(el, "prose")
  ELSE LET lineCount == estimateLineCount(el, el.lineHeight)
       IN Extend(BaseMeasure(el, "prose"),
                 [lineHeight |-> el.lineHeight, lineCount |-> lineCount,
                  canSplit |-> (lineCount >= options.orphanLines + options.widowLines
                                /\ getCSSBreakInside(el) # "avoid")])

CodeMeasure(el, options) ==
  Extend(BaseMeasure(el, "line-based"),
         [lineCount |-> el.lines, lineHeight |-> el.lineHeight,
          canSplit |-> (el.lines > 1 /\ getCSSBreakInside(el) # "avoid")])

measureRow(row) ==
  [element |-> row, type |-> "semantic-sequence", height |-> row.offsetHeight,
   marginTop |-> row.marginTop, marginBottom |-> row.marginBottom,
   canSplit |-> FALSE, forceBreakBefore |-> FALSE, isHeading |-> FALSE]

TableMeasure(el, options) ==
  LET base == BaseMeasure(el, "table")
      withHead == IF el.hasThead
                  THEN Extend(base, [thead |-> "thead",
                                     theadHeight |-> el.theadOffsetHeight])
                  ELSE base
      rows == el.children
  IN IF Len(rows) > 0
     THEN Extend(withHead,
                 [children |-> [k \in 1..Len(rows) |-> measureRow(rows[k])],
                  canSplit |-> (Len(rows) >= options.minRowsForSplit * 2)])
     ELSE Extend(withHead, [canSplit |-> FALSE])

-----------------------------------------------------------------------------
(* ListHandler: nested lists are flattened into depth-annotated items *)

directLis(listEl) == SelectSeq(listEl.children, LAMBDA c: c.tag = "LI")

\* li.querySelector(':scope > ul, :scope > ol')
nestedListOf(li) ==
  LET nested == SelectSeq(li.children, LAMBDA c: c.tag \in {"UL", "OL"})
  IN IF nested = <<>> THEN Null ELSE Head(nested)

RECURSIVE flattenList(_, _, _)
RECURSIVE flattenLis(_, _, _, _, _)
\* the body of flattenList's for loop, applied to the remaining <li>s
flattenLis(lis, listTag, depth, cumulativeOverhead, items) ==
  IF lis = <<>> THEN items
  ELSE
    LET liEl == Head(lis)
        nestedList == nestedListOf(liEl)
        hasNested == nestedList # Null
        contentHeight == IF hasNested THEN liEl.nestedOffset ELSE liEl.offsetHeight
        nestedListOverhead ==
          IF hasNested
          THEN nestedList.paddingTop + nestedList.paddingBottom
               + nestedList.marginTop + nestedList.marginBottom
          ELSE 0
        item == [element |-> liEl, depth |-> depth,
                 contentHeight |-> Max(0, contentHeight),
                 marginTop |-> liEl.marginTop,
                 marginBottom |-> IF hasNested THEN 0 ELSE liEl.marginBottom,
                 hasNestedList |-> hasNested,
                 nestedListOverhead |-> nestedListOverhead,
                 leadingOverhead |-> cumulativeOverhead,
                 parentListTag |-> listTag]
        pushed == Append(items, item)
        withNested ==
          IF hasNested
          THEN LET all == pushed \o flattenList(nestedList, depth + 1,
                                                cumulativeOverhead + nestedListOverhead)
               IN [all EXCEPT ![Len(all)].marginBottom = @ + liEl.marginBottom]
          ELSE pushed
    IN flattenLis(Tail(lis), listTag, depth, cumulativeOverhead, withNested)

flattenList(listEl, depth, cumulativeOverhead) ==
  flattenLis(directLis(listEl), listEl.tag, depth, cumulativeOverhead, <<>>)

ListMeasure(el, options) ==
  LET base == BaseMeasure(el, "semantic-sequence")
      flattened == flattenList(el, 0, 0)
  IN IF Len(flattened) > 0
     THEN Extend(base,
            [children |->
               [k \in 1..Len(flattened) |->
                  [element |-> flattened[k].element, type |-> "semantic-sequence",
                   height |-> flattened[k].contentHeight,
                   marginTop |-> flattened[k].marginTop,
                   marginBottom |-> flattened[k].marginBottom,
                   canSplit |-> FALSE, forceBreakBefore |-> FALSE,
                   isHeading |-> FALSE, flatItem |-> flattened[k]]],
             canSplit |-> (Len(flattened) >= options.minItemsForSplit * 2
                           /\ getCSSBreakInside(el) # "avoid")])
     ELSE Extend(base, [canSplit |-> FALSE])

-----------------------------------------------------------------------------
(* ContainerHandler and the registry's measure *)

\* ContainerHandler.getBlockChildren; every child element of the model is
\* block-level
getBlockChildren(el) == el.children

RECURSIVE measure(_, _)
\* ContainerHandler.measureWithCallback with the registry's measure as callback
measureWithCallback(el, options) ==
  LET base == BaseMeasure(el, "container")
      childElements == getBlockChildren(el)
      measured == [k \in 1..Len(childElements) |-> measure(childElements[k], options)]
      kept == SelectSeq(measured, LAMBDA b: b # Null)
      withChildren == IF Len(childElements) > 0
                      THEN Extend(base, [children |-> kept]) ELSE base
      count == IF Has(withChildren, "children") THEN Len(withChildren.children) ELSE 0
  IN Extend(withChildren,
            [canSplit |-> (count > 1 /\ getCSSBreakInside(el) # "avoid")])

\* HandlerRegistry.measure
measure(el, options) ==
  IF isEmpty(el) THEN Null
  ELSE LET handler == getHandler(el)
       IN CASE handler = "container" -> measureWithCallback(el, options)
            [] handler = "atomic" -> AtomicMeasure(el, options)
            [] handler = "heading" -> HeadingMeasure(el, options)
            [] handler = "prose" -> ProseMeasure(el, options)
            [] handler = "code" -> CodeMeasure(el, options)
            [] handler = "table" -> TableMeasure(el, options)
            [] OTHER -> ListMeasure(el, options)

-----------------------------------------------------------------------------
(* Split-point resolvers: one findSplitPoint per handler *)

SplitPoint(type, index, heightBefore, heightAfter) ==
  [type |-> type, index |-> index, heightBefore |-> heightBefore,
   heightAfter |-> heightAfter]

\* JavaScript's !x for an optional number: absent or 0
Falsy(block, field) == ~Has(block, field) \/ block[field] = 0

\* BaseHandler.findSplitPoint, inherited by the atomic and heading handlers
BaseFindSplitPoint(block, available, options) == Null

\* ProseHandler.findSplitPoint without the widow adjustment
ProseFindSplitPointNoWidowShift(block, available, options) ==
  IF Falsy(block, "lineCount") \/ Falsy(block, "lineHeight") THEN Null
  ELSE
    LET lineCount == block.lineCount
        lineHeight == block.lineHeight
        minLines == options.orphanLines + options.widowLines
        minContentHeight == options.minContentLines * lineHeight
        linesInAvailable == Min(available \div lineHeight, lineCount)
        linesRemaining == lineCount - linesInAvailable
    IN IF lineCount < minLines THEN Null
       ELSE IF available < minContentHeight \/ 10 * available < 6 * block.height
       THEN Null
       ELSE IF linesInAvailable < options.orphanLines THEN Null
       ELSE SplitPoint("line", linesInAvailable, linesInAvailable * lineHeight,
                       linesRemaining * lineHeight)

\* ProseHandler.findSplitPoint.  available < max(a, 0.6 * height) is
\* available < a or 10 * available < 6 * height.
ProseFindSplitPoint(block, available, options) ==
  IF Falsy(block, "lineCount") \/ Falsy(block, "lineHeight") THEN Null
  ELSE
    LET lineCount == block.lineCount
        lineHeight == block.lineHeight
        minLines == options.orphanLines + options.widowLines
        minContentHeight == options.minContentLines * lineHeight
        linesInAvailable == available \div lineHeight
        linesRemaining == lineCount - linesInAvailable
        adjustedLines == lineCount - options.widowLines
    IN IF lineCount < minLines THEN Null
       ELSE IF available < minContentHeight \/ 10 * available < 6 * block.height
       THEN Null
       ELSE IF linesInAvailable < options.orphanLines THEN Null
       ELSE IF linesRemaining < options.widowLines
       THEN IF adjustedLines < options.orphanLines THEN Null
            ELSE SplitPoint("line", adjustedLines, adjustedLines * lineHeight,
                            options.widowLines * lineHeight)
       ELSE SplitPoint("line", linesInAvailable, linesInAvailable * lineHeight,
                       linesRemaining * lineHeight)

PADDING_HEIGHT == 8

\* CodeHandler.findSplitPoint
CodeFindSplitPoint(block, available, options) ==
  IF Falsy(block, "lineCount") \/ Falsy(block, "lineHeight") THEN Null
  ELSE IF block.lineCount < 2 THEN Null
  ELSE
    LET lineCount == block.lineCount
        lineHeight == block.lineHeight
        availableForLines == available - PADDING_HEIGHT
        linesInAvailable == availableForLines \div lineHeight
        linesRemaining == lineCount - linesInAvailable
    IN IF linesInAvailable < 1 THEN Null
       ELSE IF linesRemaining < 1 THEN Null
       ELSE SplitPoint("line", linesInAvailable,
                       linesInAvailable * lineHeight + PADDING_HEIGHT,
                       linesRemaining * lineHeight + PADDING_HEIGHT)

\* child.height + child.marginTop + child.marginBottom
outerHeight(child) == child.height + child.marginTop + child.marginBottom

\* sum of the outer heights of children[lo..hi-1] (0-based)
rangeHeight(children, lo, hi) ==
  Sum([k \in 1..(hi - lo) |-> outerHeight(children[lo + k])])

RECURSIVE tableScan(_, _, _, _, _)
\* the first for loop of TableHandler.findSplitPoint from index ix on:
\* the split index it leaves, -1 when none
tableScan(rows, ix, cumHeight, available, options) ==
  IF ix >= Len(rows) THEN -1
  ELSE LET rowHeight == outerHeight(rows[ix + 1])
       IN IF cumHeight + rowHeight > available
          THEN IF ix >= options.minRowsForSplit THEN ix ELSE -1
          ELSE tableScan(rows, ix + 1, cumHeight + rowHeight, available, options)

\* TableHandler.findSplitPoint that leaves the header out of the continuation
TableFindSplitPointHeaderOnce(block, available, options) ==
  IF ~Has(block, "children") THEN Null
  ELSE IF Len(block.children) < options.minRowsForSplit * 2 THEN Null
  ELSE
    LET rows == block.children
        theadHeight == IF Falsy(block, "theadHeight") THEN 0 ELSE block.theadHeight
        found == tableScan(rows, 0, theadHeight, available, options)
        shifted == Len(rows) - found < options.minRowsForSplit
        splitIndex == IF shifted THEN Len(rows) - options.minRowsForSplit ELSE found
    IN IF found < 0 THEN Null
       ELSE IF shifted /\ splitIndex < options.minRowsForSplit THEN Null
       ELSE SplitPoint("child", splitIndex,
                       theadHeight + rangeHeight(rows, 0, splitIndex),
                       rangeHeight(rows, splitIndex, Len(rows)))

\* TableHandler.findSplitPoint
TableFindSplitPoint(block, available, options) ==
  IF ~Has(block, "children") THEN Null
  ELSE IF Len(block.children) < options.minRowsForSplit * 2 THEN Null
  ELSE
    LET rows == block.children
        theadHeight == IF Falsy(block, "theadHeight") THEN 0 ELSE block.theadHeight
        found == tableScan(rows, 0, theadHeight, available, options)
        shifted == Len(rows) - found < options.minRowsForSplit
        splitIndex == IF shifted THEN Len(rows) - options.minRowsForSplit ELSE found
    IN IF found < 0 THEN Null
       ELSE IF shifted /\ splitIndex < options.minRowsForSplit THEN Null
       ELSE SplitPoint("child", splitIndex,
                       theadHeight + rangeHeight(rows, 0, splitIndex),
                       theadHeight + rangeHeight(rows, splitIndex, Len(rows)))

\* enterOverhead that charges nothing for entering a nested list
enterOverheadNone(items, ix) == 0

\* the overhead ListHandler.findSplitPoint adds to item ix (0-based, ix > 0)
\* when it is the first item of a nested list
enterOverhead(items, ix) ==
  LET flatItem == items[ix + 1].flatItem
      prevFlatItem == items[ix].flatItem
  IN IF flatItem.depth > prevFlatItem.depth /\ prevFlatItem.hasNestedList
     THEN prevFlatItem.nestedListOverhead ELSE 0

RECURSIVE listScan(_, _, _, _, _)
\* the first for loop of ListHandler.findSplitPoint from index ix on
listScan(items, ix, cumHeight, available, options) ==
  IF ix >= Len(items) THEN -1
  ELSE LET extraPadding == IF ix = 0 THEN items[1].flatItem.leadingOverhead
                           ELSE enterOverhead(items, ix)
           itemHeight == outerHeight(items[ix + 1]) + extraPadding
       IN IF cumHeight + itemHeight > available
          THEN IF ix >= options.minItemsForSplit THEN ix ELSE -1
          ELSE listScan(items, ix + 1, cumHeight + itemHeight, available, options)

\* ListHandler.findSplitPoint without the minimum for the next page
ListFindSplitPointNoRemainderShift(block, available, options) ==
  IF ~Has(block, "children") THEN Null
  ELSE IF Len(block.children) < options.minItemsForSplit * 2 THEN Null
  ELSE
    LET items == block.children
        listPaddingTop == block.element.paddingTop
        listPaddingBottom == block.element.paddingBottom
        splitIndex == listScan(items, 0, listPaddingTop, available, options)
    IN IF splitIndex < 0 THEN Null
       ELSE SplitPoint("child", splitIndex,
                       listPaddingTop + rangeHeight(items, 0, splitIndex)
                         + listPaddingBottom,
                       listPaddingTop + rangeHeight(items, splitIndex, Len(items))
                         + listPaddingBottom)

\* ListHandler.findSplitPoint
ListFindSplitPoint(block, available, options) ==
  IF ~Has(block, "children") THEN Null
  ELSE IF Len(block.children) < options.minItemsForSplit * 2 THEN Null
  ELSE
    LET items == block.children
        listPaddingTop == block.element.paddingTop
        listPaddingBottom == block.element.paddingBottom
        found == listScan(items, 0, listPaddingTop, available, options)
        shifted == Len(items) - found < options.minItemsForSplit
        splitIndex == IF shifted THEN Len(items) - options.minItemsForSplit ELSE found
        heightBefore ==
          listPaddingTop
          + Sum([k \in 1..splitIndex |->
                   outerHeight(items[k])
                   + (IF k - 1 > 0 THEN enterOverhead(items, k - 1) ELSE 0)])
          + listPaddingBottom
        heightAfter ==
          listPaddingTop
          + Sum([k \in 1..(Len(items) - splitIndex) |->
                   outerHeight(items[splitIndex + k])
                   + (IF k = 1 THEN items[splitIndex + 1].flatItem.leadingOverhead
                      ELSE enterOverhead(items, splitIndex + k - 1))])
          + listPaddingBottom
    IN IF found < 0 THEN Null
       ELSE IF shifted /\ splitIndex < options.minItemsForSplit THEN Null
       ELSE SplitPoint("child", splitIndex, heightBefore, heightAfter)

RECURSIVE containerScan(_, _, _, _)
\* the for loop of ContainerHandler.findSplitPoint from index ix on
containerScan(children, ix, cumHeight, available) ==
  IF ix >= Len(children) THEN -1
  ELSE LET childHeight == outerHeight(children[ix + 1])
       IN IF cumHeight + childHeight > available
          THEN IF ix > 0 THEN ix ELSE -1
          ELSE containerScan(children, ix + 1, cumHeight + childHeight, available)

\* ContainerHandler.findSplitPoint
ContainerFindSplitPoint(block, available, options) ==
  IF ~Has(block, "children") THEN Null
  ELSE IF Len(block.children) < 2 THEN Null
  ELSE
    LET children == block.children
        splitIndex == containerScan(children, 0, 0, available)
    IN IF splitIndex < 1 THEN Null
       ELSE SplitPoint("child", splitIndex,
                       rangeHeight(children, 0, splitIndex),
                       rangeHeight(children, splitIndex, Len(children)))

\* HandlerRegistry.findSplitPoint: dispatch on the block's element
findSplitPoint(block, available, options) ==
  LET handler == getHandler(block.element)
  IN CASE handler = "prose" -> ProseFindSplitPoint(block, available, options)
       [] handler = "code" -> CodeFindSplitPoint(block, available, options)
       [] handler = "table" -> TableFindSplitPoint(block, available, options)
       [] handler = "list" -> ListFindSplitPoint(block, available, options)
       [] handler = "container" -> ContainerFindSplitPoint(block, available, options)
       [] OTHER -> BaseFindSplitPoint(block, available, options)

-----------------------------------------------------------------------------
(* Heading aggregation *)

RECURSIVE headingRunEnd(_, _)
\* the inner while loop of groupConsecutiveHeadings: first index from j on
\* (1-based) that does not hold a heading
headingRunEnd(bs, j) ==
  IF j <= Len(bs) /\ bs[j].isHeading THEN headingRunEnd(bs, j + 1) ELSE j

RECURSIVE groupFrom(_, _, _)
\* the outer while loop of groupConsecutiveHeadings from index k on
groupFrom(bs, k, out) ==
  IF k > Len(bs) THEN out
  ELSE
    LET block == bs[k]
        j == headingRunEnd(bs, k + 1)
        headingGroup == SubSeq(bs, k, j - 1)
        totalHeight == Sum([m \in 1..Len(headingGroup) |->
                              headingGroup[m].height + headingGroup[m].marginBottom])
        groupBlock ==
          [element |-> block.element, type |-> "heading-group",
           height |-> totalHeight, marginTop |-> block.marginTop,
           marginBottom |-> headingGroup[Len(headingGroup)].marginBottom,
           canSplit |-> FALSE, forceBreakBefore |-> block.forceBreakBefore,
           isHeading |-> TRUE, headingLevel |-> block.headingLevel,
           children |-> headingGroup]
    IN IF block.isHeading /\ Len(headingGroup) > 1
       THEN groupFrom(bs, j, Append(out, groupBlock))
       ELSE groupFrom(bs, k + 1, Append(out, block))

\* groupConsecutiveHeadings that leaves the headings as they are
groupConsecutiveHeadingsUngrouped(bs) == bs

groupConsecutiveHeadings(bs) == groupFrom(bs, 1, <<>>)

-----------------------------------------------------------------------------
(* paginate: pages, fragments and the body of the page-filling loop *)

createPage(index, orientation) ==
  [index |-> index, fragments |-> <<>>, height |-> 0, orientation |-> orientation]

addFragment(page, fragment) ==
  [page EXCEPT !.fragments = Append(@, fragment),
               !.height = @ + fragment.block.height + fragment.block.marginTop]

fullFragment(block) == [block |-> block, isPartial |-> FALSE]

partialFragment(block, clipTop, clipHeight, startLine, endLine) ==
  [block |-> block, isPartial |-> TRUE, clipTop |-> clipTop,
   clipHeight |-> clipHeight, startLine |-> startLine, endLine |-> endLine]

\* advance that stores the finished page over the last pushed one
advanceOverwritingLast(st, options) ==
  [pages |-> IF st.pages = <<>> THEN <<st.currentPage>>
             ELSE [st.pages EXCEPT ![Len(st.pages)] = st.currentPage],
   currentPage |-> createPage(Len(st.pages) + 1, options.orientation),
   remaining |-> options.contentHeight]

\* pages.push(currentPage); currentPage = createPage(pages.length, ...);
\* remaining = resolved.contentHeight
advance(st, options) ==
  [pages |-> Append(st.pages, st.currentPage),
   currentPage |-> createPage(Len(st.pages) + 1, options.orientation),
   remaining |-> options.contentHeight]

\* checkHeadingMinContent that asks for the whole next block in every case
checkHeadingMinContentWholeBlock(block, nextBlock, space, options) ==
  \/ ~block.isHeading
  \/ nextBlock = Undefined
  \/ nextBlock.height + nextBlock.marginTop <= space - (block.height + block.marginTop)

\* checkHeadingMinContent of paginate.ts.  max(a, h / 3) <= s is
\* a <= s and h <= 3 * s.
checkHeadingMinContent(block, nextBlock, space, options) ==
  IF ~block.isHeading THEN TRUE
  ELSE IF nextBlock = Undefined THEN TRUE
  ELSE
    LET headingHeight == block.height + block.marginTop
        spaceAfterHeading == space - headingHeight
        lineHeight == IF Has(nextBlock, "lineHeight") THEN nextBlock.lineHeight ELSE 20
        minByLines == options.minContentLines * lineHeight
    IN IF ~nextBlock.canSplit
       THEN nextBlock.height + nextBlock.marginTop <= spaceAfterHeading
       ELSE minByLines <= spaceAfterHeading /\ nextBlock.height <= 3 * spaceAfterHeading

\* forceBreakStep that never breaks
forceBreakStepSkipped(st, block, options) == st

\* "Force break before (H1 or CSS)"
forceBreakStep(st, block, options) ==
  IF block.forceBreakBefore /\ Len(st.currentPage.fragments) > 0
  THEN advance(st, options) ELSE st

\* "Check heading + min content"
headingStep(st, block, nextBlock, options) ==
  IF block.isHeading /\ ~checkHeadingMinContent(block, nextBlock, st.remaining, options)
  THEN advance(st, options) ELSE st

totalHeightOf(block) == block.height + block.marginTop + block.marginBottom

\* "Block fits entirely"
placeFull(st, block) ==
  [st EXCEPT !.currentPage = addFragment(@, fullFragment(block)),
             !.remaining = @ - totalHeightOf(block)]

\* placeLineSplit without the page advance between the two parts
placeLineSplitOnOnePage(st, block, sp, options) ==
  LET before == [st EXCEPT !.currentPage =
                   addFragment(@, partialFragment(block, 0, sp.heightBefore, 0, sp.index))]
  IN [before EXCEPT !.currentPage =
                      addFragment(@, partialFragment(block, sp.heightBefore, sp.heightAfter,
                                                     sp.index, block.lineCount)),
                    !.remaining = @ - sp.heightAfter]

\* "Line-based split"
placeLineSplit(st, block, sp, options) ==
  LET before == [st EXCEPT !.currentPage =
                   addFragment(@, partialFragment(block, 0, sp.heightBefore, 0, sp.index))]
      fresh == advance(before, options)
  IN [fresh EXCEPT !.currentPage =
                     addFragment(@, partialFragment(block, sp.heightBefore, sp.heightAfter,
                                                    sp.index, block.lineCount)),
                   !.remaining = @ - sp.heightAfter]

\* { ...block, children: block.children?.slice(start, end), height }
partOf(block, start, end, height) ==
  IF Has(block, "children")
  THEN [block EXCEPT !.children = slice(block.children, start, end), !.height = height]
  ELSE [block EXCEPT !.height = height]

\* continuationHeader that keeps the header whatever the option says
continuationHeaderAlwaysKept(block, secondPart, options) == secondPart

\* "For tables: only include thead in continuation if repeatTableHeader is
\* true"
continuationHeader(block, secondPart, options) ==
  IF block.type = "table" /\ ~options.repeatTableHeader
  THEN Without(secondPart, {"thead", "theadHeight"})
  ELSE secondPart

\* placeChildSplit with the second part sliced one child too late
placeChildSplitSkippingChild(st, block, sp, options) ==
  LET firstPart == partOf(block, 0, sp.index, sp.heightBefore)
      before == [st EXCEPT !.currentPage = addFragment(@, fullFragment(firstPart))]
      fresh == advance(before, options)
      secondPart == partOf(block, sp.index + 1,
                           IF Has(block, "children") THEN Len(block.children) ELSE 0,
                           sp.heightAfter)
  IN [fresh EXCEPT !.currentPage = addFragment(@, fullFragment(secondPart)),
                   !.remaining = @ - sp.heightAfter]

\* "Child-based split (container, list, table)"
placeChildSplit(st, block, sp, options) ==
  LET firstPart == partOf(block, 0, sp.index, sp.heightBefore)
      before == [st EXCEPT !.currentPage = addFragment(@, fullFragment(firstPart))]
      fresh == advance(before, options)
      wholeSecond == partOf(block, sp.index,
                            IF Has(block, "children") THEN Len(block.children) ELSE 0,
                            sp.heightAfter)
      secondPart == continuationHeader(block, wholeSecond, options)
  IN [fresh EXCEPT !.currentPage = addFragment(@, fullFragment(secondPart)),
                   !.remaining = @ - sp.heightAfter]

\* placeRejected that gives the block up after advancing
placeRejectedDroppingBlock(st, block, options) ==
  IF Len(st.currentPage.fragments) > 0 THEN advance(st, options) ELSE st

\* "Can't split, move to next page" of the splittable branch
placeRejected(st, block, options) ==
  LET fresh == IF Len(st.currentPage.fragments) > 0 THEN advance(st, options) ELSE st
  IN placeFull(fresh, block)

\* "Can't split, move to next page" and "Handle oversized elements"
placeUnsplittable(st, block, options) ==
  LET fresh == IF Len(st.currentPage.fragments) > 0 THEN advance(st, options) ELSE st
  IN IF totalHeightOf(block) > options.contentHeight
     THEN [fresh EXCEPT !.currentPage = addFragment(@, fullFragment(block)),
                        !.remaining = 0]
     ELSE placeFull(fresh, block)

\* fitBranch that asks for a split point without looking at canSplit
fitBranchIgnoringCanSplit(st, block, options) ==
  IF totalHeightOf(block) <= st.remaining THEN "fits"
  ELSE LET sp == findSplitPoint(block, st.remaining, options)
       IN IF sp # Null THEN sp.type
          ELSE IF block.canSplit THEN "rejected" ELSE "unsplittable"

\* which branch of "Check fit" the loop body takes for block
fitBranch(st, block, options) ==
  IF totalHeightOf(block) <= st.remaining THEN "fits"
  ELSE IF block.canSplit
  THEN LET sp == findSplitPoint(block, st.remaining, options)
       IN IF sp # Null THEN sp.type ELSE "rejected"
  ELSE "unsplittable"

\* the "Check fit" if / else-if chain of the loop body
placeStep(st, block, options) ==
  LET branch == fitBranch(st, block, options)
      sp == findSplitPoint(block, st.remaining, options)
  IN CASE branch = "fits" -> placeFull(st, block)
       [] branch = "line" -> placeLineSplit(st, block, sp, options)
       [] branch = "child" -> placeChildSplit(st, block, sp, options)
       [] branch = "rejected" -> placeRejected(st, block, options)
       [] OTHER -> placeUnsplittable(st, block, options)

\* the state in which the loop body reaches "Check fit"
beforeFit(st, block, nextBlock, options) ==
  headingStep(forceBreakStep(st, block, options), block, nextBlock, options)

\* one full iteration of the for loop of paginate
loopBody(st, block, nextBlock, options) ==
  placeStep(beforeFit(st, block, nextBlock, options), block, options)

-----------------------------------------------------------------------------
(* Options *)

DEFAULT_OPTIONS ==
  [pageHeight |-> 1123, pageWidth |-> 794, contentHeight |-> 1123 - 188,
   contentWidth |-> 794 - 160, orientation |-> "portrait", orphanLines |-> 2,
   widowLines |-> 2, minContentLines |-> 2, minItemsForSplit |-> 2,
   minRowsForSplit |-> 2, repeatTableHeader |-> FALSE,
   skipEmptyElements |-> TRUE]

\* content heights of the pages the documents below are laid out on
ContentHeights == {200}

\* resolved options records paginate is run with
PaginateOptions ==
  {[DEFAULT_OPTIONS EXCEPT !.contentHeight = ch, !.pageHeight = ch + 188,
                           !.repeatTableHeader = rth] :
     ch \in ContentHeights, rth \in BOOLEAN}

-----------------------------------------------------------------------------
(* The documents: sequences of top-level elements drawn from Shapes *)

Img(h) == El("IMG", h, 0, 0)

Heading(tag) == El(tag, 40, 10, 10)

Para(h, mt, mb) == El("P", h, mt, mb)

Pre(n) == [El("PRE", n * 20, 0, 0) EXCEPT !.lines = n]

Row(h) == El("TR", h, 0, 0)

Table(n) ==
  [El("TABLE", 20 + n * 20, 10, 10) EXCEPT
     !.hasThead = TRUE, !.theadOffsetHeight = 20,
     !.children = Numbered([k \in 1..n |-> Row(20)])]

Li(id, h) == WithId(El("LI", h, 0, 0), id)

\* <ul> of three items whose first item holds a nested <ul> of three items
NestedList ==
  LET inner == [El("UL", 76, 0, 0) EXCEPT
                  !.id = 2, !.paddingTop = 8, !.paddingBottom = 8,
                  !.children = <<Li(3, 20), Li(4, 20), Li(5, 20)>>]
      first == [Li(1, 96) EXCEPT !.nestedOffset = 20, !.children = <<inner>>]
  IN [El("UL", 156, 0, 0) EXCEPT
        !.paddingTop = 10, !.paddingBottom = 10,
        !.children = <<first, Li(6, 20), Li(7, 20)>>]

Div(kids, mt, mb) ==
  [El("DIV", Sum([k \in 1..Len(kids) |->
                    kids[k].offsetHeight + kids[k].marginTop + kids[k].marginBottom]),
      mt, mb) EXCEPT !.children = Numbered(kids)]

Shapes ==
  { Img(60), Img(260),
    Heading("H2"), Heading("H1"),
    Para(140, 10, 10), Para(240, 0, 0),
    [Para(140, 0, 0) EXCEPT !.keepTogether = TRUE],
    [Para(60, 0, 0) EXCEPT !.hasMedia = TRUE],
    Pre(6),
    Table(6),
    [Table(6) EXCEPT !.keepTogether = TRUE],
    NestedList,
    Div(<<Img(60), Para(60, 0, 0), Img(60)>>, 10, 10),
    [Div(<<Img(60), Para(60, 0, 0), Img(60)>>, 0, 0) EXCEPT !.breakBefore = TRUE] }

\* getBlockChildren(container): the top-level elements, identified by position
Documents ==
  UNION {[1..n -> Shapes] : n \in 0..MaxBlocks}

\* the measuring loop of paginate followed by groupConsecutiveHeadings
measureAll(doc, options) ==
  LET measured == [k \in 1..Len(doc) |-> measure(WithId(doc[k], k), options)]
  IN groupConsecutiveHeadings(SelectSeq(measured, LAMBDA b: b # Null))

-----------------------------------------------------------------------------
(* paginate as a state machine: one step per loop iteration *)

NoProbe == [handler |-> "none"]

Init ==
  /\ resolved \in PaginateOptions
  /\ \E doc \in Documents : blocks = measureAll(doc, resolved)
  /\ i = 0
  /\ pages = <<>>
  /\ currentPage = createPage(0, resolved.orientation)
  /\ remaining = resolved.contentHeight
  /\ pc = "loop"
  /\ result = Null
  /\ flatItems = <<>>
  /\ pageStartIndex = 0
  /\ folio = Null
  /\ state = Null
  /\ probe = NoProbe
  /\ split = Null

cur == [pages |-> pages, currentPage |-> currentPage, remaining |-> remaining]

blockAtI == blocks[i + 1]

blockAfterI == IF i + 2 <= Len(blocks) THEN blocks[i + 2] ELSE Undefined

\* the branch of "Check fit" the next iteration takes
branchTaken == fitBranch(beforeFit(cur, blockAtI, blockAfterI, resolved), blockAtI, resolved)

\* one iteration of the for loop
Iterate ==
  /\ LET post == loopBody(cur, blockAtI, blockAfterI, resolved)
     IN /\ pages' = post.pages
        /\ currentPage' = post.currentPage
        /\ remaining' = post.remaining
  /\ i' = i + 1
  /\ UNCHANGED <<folio, state, blocks, resolved, pc, result, probe, split, flatItems, pageStartIndex>>

\* an iteration in which the block fits entirely
PlaceFits ==
  /\ pc = "loop" /\ i < Len(blocks)
  /\ branchTaken = "fits"
  /\ Iterate

\* an iteration that splits the block between lines
SplitLine ==
  /\ pc = "loop" /\ i < Len(blocks)
  /\ branchTaken = "line"
  /\ Iterate

\* an iteration that splits the block between children
SplitChild ==
  /\ pc = "loop" /\ i < Len(blocks)
  /\ branchTaken = "child"
  /\ Iterate

\* an iteration whose splittable block gets no split point
SplitRejected ==
  /\ pc = "loop" /\ i < Len(blocks)
  /\ branchTaken = "rejected"
  /\ Iterate

\* an iteration whose block does not fit and cannot split
PlaceUnsplittable ==
  /\ pc = "loop" /\ i < Len(blocks)
  /\ branchTaken = "unsplittable"
  /\ Iterate

\* "Add last page if it has content" and the return statement
Finish ==
  /\ pc = "loop"
  /\ i >= Len(blocks)
  /\ pages' = IF Len(currentPage.fragments) > 0 THEN Append(pages, currentPage) ELSE pages
  /\ result' = [pages |-> pages', totalPages |-> Len(pages'), options |-> resolved]
  /\ pc' = "done"
  /\ UNCHANGED <<folio, state, blocks, resolved, i, currentPage, remaining, probe, split, flatItems, pageStartIndex>>

Next ==
  \/ PlaceFits
  \/ SplitLine
  \/ SplitChild
  \/ SplitRejected
  \/ PlaceUnsplittable
  \/ Finish

Spec == Init /\ [][Next]_vars

-----------------------------------------------------------------------------
(* The resolvers on their own: one findSplitPoint call on a measured block *)

\* findProseSplitPoint of heuristics.ts
findProseSplitPoint(block, available, options) ==
  IF Falsy(block, "lineCount") \/ Falsy(block, "lineHeight") THEN Null
  ELSE
    LET lineCount == block.lineCount
        lineHeight == block.lineHeight
        minLines == options.orphanLines + options.widowLines
        linesInAvailable == available \div lineHeight
        linesRemaining == lineCount - linesInAvailable
        adjustedLines == lineCount - options.widowLines
    IN IF lineCount < minLines THEN Null
       ELSE IF linesInAvailable < options.orphanLines THEN Null
       ELSE IF linesRemaining < options.widowLines
       THEN IF adjustedLines < options.orphanLines THEN Null
            ELSE SplitPoint("line", adjustedLines, adjustedLines * lineHeight,
                            options.widowLines * lineHeight)
       ELSE SplitPoint("line", linesInAvailable, linesInAvailable * lineHeight,
                       linesRemaining * lineHeight)

\* findLineSplitPoint of heuristics.ts
findLineSplitPoint(block, available) ==
  IF Falsy(block, "lineCount") \/ Falsy(block, "lineHeight") THEN Null
  ELSE LET linesInAvailable == available \div block.lineHeight
           linesRemaining == block.lineCount - linesInAvailable
       IN IF linesInAvailable < 1 THEN Null
          ELSE IF linesRemaining < 1 THEN Null
          ELSE SplitPoint("line", linesInAvailable,
                          linesInAvailable * block.lineHeight,
                          linesRemaining * block.lineHeight)

\* findContainerSplitPoint of heuristics.ts
findContainerSplitPoint(block, available, options) ==
  IF ~Has(block, "children") THEN Null
  ELSE IF Len(block.children) < 2 THEN Null
  ELSE LET children == block.children
           splitIndex == containerScan(children, 0, 0, available)
       IN IF splitIndex < 1 THEN Null
          ELSE SplitPoint("child", splitIndex,
                          rangeHeight(children, 0, splitIndex),
                          rangeHeight(children, splitIndex, Len(children)))

RECURSIVE sequenceScan(_, _, _, _)
\* the first for loop of findSequenceSplitPoint from index ix on: the split
\* index it leaves, -1 when none
sequenceScan(children, ix, cumHeight, available) ==
  IF ix >= Len(children) THEN -1
  ELSE LET childHeight == outerHeight(children[ix + 1])
       IN IF cumHeight + childHeight > available THEN ix
          ELSE sequenceScan(children, ix + 1, cumHeight + childHeight, available)

\* findSequenceSplitPoint of heuristics.ts
findSequenceSplitPoint(block, available, options) ==
  IF ~Has(block, "children") THEN Null
  ELSE IF Len(block.children) < options.minItemsForSplit THEN Null
  ELSE LET children == block.children
           splitIndex == sequenceScan(children, 0, 0, available)
       IN IF splitIndex < 1 THEN Null
          ELSE IF Len(children) - splitIndex < 1 THEN Null
          ELSE SplitPoint("child", splitIndex,
                          rangeHeight(children, 0, splitIndex),
                          rangeHeight(children, splitIndex, Len(children)))

\* findTableSplitPoint of heuristics.ts
findTableSplitPoint(block, available, options) ==
  IF ~Has(block, "children") THEN Null
  ELSE IF Len(block.children) < options.minRowsForSplit * 2 THEN Null
  ELSE
    LET rows == block.children
        theadHeight == IF Falsy(block, "theadHeight") THEN 0 ELSE block.theadHeight
        found == tableScan(rows, 0, theadHeight, available, options)
        splitIndex == IF Len(rows) - found < options.minRowsForSplit
                      THEN Len(rows) - options.minRowsForSplit
                      ELSE found
    IN IF found < 0 THEN Null
       ELSE IF splitIndex < options.minRowsForSplit THEN Null
       ELSE SplitPoint("child", splitIndex,
                       theadHeight + rangeHeight(rows, 0, splitIndex),
                       theadHeight + rangeHeight(rows, splitIndex, Len(rows)))

\* the exported findSplitPoint of heuristics.ts
heuristicsFindSplitPoint(block, available, options) ==
  CASE block.type = "prose" -> findProseSplitPoint(block, available, options)
    [] block.type = "line-based" -> findLineSplitPoint(block, available)
    [] block.type = "container" -> findContainerSplitPoint(block, available, options)
    [] block.type = "semantic-sequence" ->
         findSequenceSplitPoint(block, available, options)
    [] block.type = "table" -> findTableSplitPoint(block, available, options)
    [] OTHER -> Null

\* available heights tried, in pixels
AvailStep == 10

Availables == {k * AvailStep : k \in 0..(2 * MaxAvail)}

\* options records the resolvers are tried with
ResolverOptions ==
  {[DEFAULT_OPTIONS EXCEPT !.contentHeight = 200, !.pageHeight = 388,
                           !.orphanLines = o, !.widowLines = w,
                           !.minContentLines = m, !.minItemsForSplit = g,
                           !.minRowsForSplit = g] :
     o \in 1..3, w \in 1..3, m \in {0, 2}, g \in 1..2}

\* <ul> of n items, every other one taller, with the given paddings
FlatList(n, pad) ==
  [El("UL", 2 * pad + Sum([k \in 1..n |-> 20 + 20 * (k % 2)]), 0, 0) EXCEPT
     !.paddingTop = pad, !.paddingBottom = pad,
     !.children = [k \in 1..n |-> Li(k, 20 + 20 * (k % 2))]]

\* <table> of n rows, every other one taller, with or without a header
ProbeTable(n, head) ==
  [El("TABLE", head + Sum([k \in 1..n |-> 20 + 20 * (k % 2)]), 0, 0) EXCEPT
     !.hasThead = (head > 0), !.theadOffsetHeight = head,
     !.children = Numbered([k \in 1..n |-> Row(20 + 20 * (k % 2))])]

ProseElements ==
  {Para(n * 20, 0, 0) : n \in 1..MaxLines}
    \cup {[Para(60, 0, 0) EXCEPT !.hasMedia = TRUE]}

\* <ul> nested three levels deep: A [B [C, D], E], F, G
DeepList ==
  LET innermost == [El("UL", 46, 0, 0) EXCEPT
                      !.id = 4, !.paddingTop = 3, !.paddingBottom = 3,
                      !.children = <<Li(5, 20), Li(6, 20)>>]
      second == [Li(3, 66) EXCEPT !.nestedOffset = 20, !.children = <<innermost>>]
      inner == [El("UL", 102, 0, 0) EXCEPT
                  !.id = 2, !.paddingTop = 8, !.paddingBottom = 8,
                  !.children = <<second, Li(7, 20)>>]
      first == [Li(1, 122) EXCEPT !.nestedOffset = 20, !.children = <<inner>>]
  IN [El("UL", 162, 0, 0) EXCEPT !.children = <<first, Li(8, 20), Li(9, 20)>>]

ListElements ==
  {FlatList(n, pad) : n \in 1..MaxUnits, pad \in {0, 10}} \cup {NestedList, DeepList}

TableElements == {ProbeTable(n, head) : n \in 1..MaxUnits, head \in {0, 20}}

CodeElements == {Pre(n) : n \in 1..MaxLines}

\* <div> of n children, every other one taller
ProbeDiv(n) == Div([k \in 1..n |-> Img(20 + 20 * (k % 2))], 0, 0)

ContainerElements == {ProbeDiv(n) : n \in 1..MaxUnits}

\* <table> of ten rows of 20 under a header of 30
ScenarioTable ==
  [El("TABLE", 30 + 10 * 20, 0, 0) EXCEPT
     !.hasThead = TRUE, !.theadOffsetHeight = 30,
     !.children = Numbered([k \in 1..10 |-> Row(20)])]

\* the worked examples: a paragraph of ten lines of 20 with 120 available,
\* and ScenarioTable with 200 available
ScenarioProbes ==
  {[handler |-> "prose", element |-> WithId(Para(200, 0, 0), 1), available |-> 120],
   [handler |-> "table", element |-> WithId(ScenarioTable, 1), available |-> 200]}

Probes ==
  {[handler |-> h, element |-> WithId(el, 1), available |-> a] :
     h \in {"prose", "heuristics-prose"}, el \in ProseElements, a \in Availables}
  \cup {[handler |-> "list", element |-> WithId(el, 1), available |-> a] :
          el \in ListElements, a \in Availables}
  \cup {[handler |-> "table", element |-> WithId(el, 1), available |-> a] :
          el \in TableElements, a \in Availables}
  \cup {[handler |-> "code", element |-> WithId(el, 1), available |-> a] :
          el \in CodeElements, a \in Availables}
  \cup {[handler |-> "container", element |-> WithId(el, 1), available |-> a] :
          el \in ContainerElements, a \in Availables}
  \cup {[handler |-> "heuristics", element |-> WithId(el, 1), available |-> a] :
          el \in ProseElements \cup ListElements \cup TableElements
                  \cup CodeElements \cup ContainerElements,
          a \in Availables}
  \cup ScenarioProbes

InitResolver ==
  /\ resolved \in ResolverOptions
  /\ \E c \in Probes :
       probe = [handler |-> c.handler, block |-> measure(c.element, resolved),
                available |-> c.available]
  /\ split = Null
  /\ pc = "probe"
  /\ blocks = <<>>
  /\ i = 0
  /\ pages = <<>>
  /\ currentPage = createPage(0, resolved.orientation)
  /\ remaining = resolved.contentHeight
  /\ result = Null
  /\ flatItems = <<>>
  /\ pageStartIndex = 0
  /\ folio = Null
  /\ state = Null

\* the call returns sp
Returned(sp) ==
  /\ split' = sp
  /\ pc' = "probed"
  /\ UNCHANGED <<folio, state, blocks, resolved, i, pages, currentPage, remaining, result, probe, flatItems, pageStartIndex>>

ResolveProse ==
  /\ pc = "probe" /\ probe.handler = "prose"
  /\ Returned(ProseFindSplitPoint(probe.block, probe.available, resolved))

ResolveHeuristicsProse ==
  /\ pc = "probe" /\ probe.handler = "heuristics-prose"
  /\ Returned(findProseSplitPoint(probe.block, probe.available, resolved))

ResolveList ==
  /\ pc = "probe" /\ probe.handler = "list"
  /\ Returned(ListFindSplitPoint(probe.block, probe.available, resolved))

ResolveTable ==
  /\ pc = "probe" /\ probe.handler = "table"
  /\ Returned(TableFindSplitPoint(probe.block, probe.available, resolved))

ResolveCode ==
  /\ pc = "probe" /\ probe.handler = "code"
  /\ Returned(CodeFindSplitPoint(probe.block, probe.available, resolved))

ResolveContainer ==
  /\ pc = "probe" /\ probe.handler = "container"
  /\ Returned(ContainerFindSplitPoint(probe.block, probe.available, resolved))

\* a call of the exported findSplitPoint of heuristics.ts
ResolveHeuristics ==
  /\ pc = "probe" /\ probe.handler = "heuristics"
  /\ Returned(heuristicsFindSplitPoint(probe.block, probe.available, resolved))

NextResolver ==
  \/ ResolveProse
  \/ ResolveHeuristicsProse
  \/ ResolveHeuristics
  \/ ResolveList
  \/ ResolveTable
  \/ ResolveCode
  \/ ResolveContainer

SpecResolver == InitResolver /\ [][NextResolver]_vars

-----------------------------------------------------------------------------
(* Reading the output of paginate *)

\* the pages laid out so far; after the return, the pages of the result
allPages == IF pc = "done" THEN result.pages ELSE Append(pages, currentPage)

\* the measured block a fragment was made from
sourceOf(f) == CHOOSE b \in {blocks[k] : k \in 1..Len(blocks)} :
                 b.element.id = f.block.element.id

\* where every fragment placed so far lies: page and position, both 1-based
placements ==
  UNION {{[page |-> p, pos |-> j] : j \in 1..Len(allPages[p].fragments)} :
           p \in 1..Len(allPages)}

fragAt(x) == allPages[x.page].fragments[x.pos]

lineUnits(id, lo, hi) == [k \in 1..(hi - lo) |-> <<id, "line", lo + k - 1>>]

childUnits(id, children) ==
  [k \in 1..Len(children) |-> <<id, "child", children[k].element.id>>]

\* the units (lines, children, or the block itself) a block consists of
unitsOfBlock(b) ==
  IF Has(b, "lineCount") /\ b.lineCount > 0
  THEN lineUnits(b.element.id, 0, b.lineCount)
  ELSE IF Has(b, "children") /\ Len(b.children) > 0
  THEN childUnits(b.element.id, b.children)
  ELSE << <<b.element.id, "block", 0>> >>

\* the units a fragment shows: its line range, or the children of its block
unitsOfFragment(f) ==
  IF f.isPartial /\ Has(f, "startLine")
  THEN lineUnits(f.block.element.id, f.startLine, f.endLine)
  ELSE unitsOfBlock(f.block)

unitsOfPage(page) ==
  Concat([j \in 1..Len(page.fragments) |-> unitsOfFragment(page.fragments[j])])

\* the height a fragment takes on its page
placedHeight(f) == IF f.isPartial THEN f.clipHeight ELSE f.block.height

\* a block that cannot fit even alone on an empty page
isOversized(b) == totalHeightOf(b) > resolved.contentHeight

\* f is the leading part of a split block
isBeforePart(f) ==
  LET src == sourceOf(f)
  IN IF f.isPartial THEN f.startLine = 0 /\ f.endLine < src.lineCount
     ELSE /\ Has(src, "children") /\ Has(f.block, "children")
          /\ Len(f.block.children) < Len(src.children)
          /\ f.block.children = SubSeq(src.children, 1, Len(f.block.children))

\* g is the rest of the split block whose leading part is f
isAfterPartOf(g, f) ==
  LET src == sourceOf(f)
  IN /\ g.block.element.id = f.block.element.id
     /\ IF f.isPartial
        THEN g.isPartial /\ g.startLine = f.endLine /\ g.endLine = src.lineCount
        ELSE /\ ~g.isPartial /\ Has(g.block, "children")
             /\ g.block.children =
                  SubSeq(src.children, Len(f.block.children) + 1, Len(src.children))

\* f is a part of a split block other than its leading part
isAfterPart(f) ==
  LET src == sourceOf(f)
  IN IF f.isPartial THEN f.startLine > 0
     ELSE /\ Has(src, "children") /\ Has(f.block, "children")
          /\ Len(f.block.children) < Len(src.children)
          /\ ~isBeforePart(f)

-----------------------------------------------------------------------------
(* Conservation *)

\* C1: once paginate has returned, reading the pages in order, fragment by
\* fragment, each split part expanded by its line range or child slice, gives
\* exactly the units of the heading-grouped input blocks in input order:
\* nothing dropped, reordered or duplicated.
Conservation ==
  pc = "done" =>
    Concat([p \in 1..Len(result.pages) |-> unitsOfPage(result.pages[p])])
      = Concat([k \in 1..Len(blocks) |-> unitsOfBlock(blocks[k])])

\* a returned layout holding both a line split and a child split
ConservationWitness ==
  /\ pc = "done"
  /\ \E x \in placements : fragAt(x).isPartial /\ isBeforePart(fragAt(x))
  /\ \E x \in placements : ~fragAt(x).isPartial /\ isBeforePart(fragAt(x))

-----------------------------------------------------------------------------
(* Fit *)

\* placed height plus margins of the fragments of a page
pageLoad(page) ==
  Sum([j \in 1..Len(page.fragments) |->
         placedHeight(page.fragments[j]) + page.fragments[j].block.marginTop
         + page.fragments[j].block.marginBottom])

holdsOversized(page) ==
  \E j \in 1..Len(page.fragments) : isOversized(sourceOf(page.fragments[j]))

\* C2: in the returned pages, every page that holds no oversized block has
\* placed heights plus margins summing to at most contentHeight, the page
\* that receives the after-part of a split block included.
FitInvariant ==
  pc = "done" =>
    \A p \in 1..Len(result.pages) :
      holdsOversized(result.pages[p])
        \/ pageLoad(result.pages[p]) <= resolved.contentHeight

-----------------------------------------------------------------------------
(* Atomicity *)

\* C4: no fragment of a block measured with canSplit = false is partial or
\* shows less than the whole block, on any page and at any time.
Atomicity ==
  \A x \in placements :
    ~sourceOf(fragAt(x)).canSplit =>
      ~fragAt(x).isPartial /\ fragAt(x).block = sourceOf(fragAt(x))

\* a keep-together paragraph or an atomic block that did not fit the space
\* left and was moved whole to the top of a later page
AtomicityWitness ==
  \E x \in placements :
    /\ x.page > 1 /\ x.pos = 1
    /\ ~sourceOf(fragAt(x)).canSplit
    /\ sourceOf(fragAt(x)).type \in {"prose", "atomic"}
    /\ ~sourceOf(fragAt(x)).forceBreakBefore
    /\ Len(allPages[x.page - 1].fragments) > 0

-----------------------------------------------------------------------------
(* Oversize handling *)

\* C6: every oversized block is placed as exactly one full, non-partial
\* fragment, and the returned result records an OversizeOverflow warning
\* { boxRef, excessHeight } for it.
OversizeHandled ==
  pc = "done" =>
    \A k \in 1..Len(blocks) :
      isOversized(blocks[k]) =>
        /\ Cardinality({x \in placements :
                          fragAt(x).block.element.id = blocks[k].element.id}) = 1
        /\ \A x \in placements :
             fragAt(x).block.element.id = blocks[k].element.id =>
               ~fragAt(x).isPartial /\ fragAt(x).block = blocks[k]
        /\ Has(result, "warnings")
        /\ \E w \in result.warnings :
             /\ w.boxRef = blocks[k].element.id
             /\ w.excessHeight = totalHeightOf(blocks[k]) - resolved.contentHeight

-----------------------------------------------------------------------------
(* Headings *)

pagesHolding(id) == {x.page : x \in {y \in placements : fragAt(y).block.element.id = id}}

\* C7: in the returned pages, every heading block that is followed by another
\* block shares its page with that block or with the first part of it.
HeadingNotAlone ==
  pc = "done" =>
    \A k \in 1..(Len(blocks) - 1) :
      blocks[k].isHeading =>
        pagesHolding(blocks[k].element.id) \cap pagesHolding(blocks[k + 1].element.id) # {}

\* C8: no page that paginate has finalized is without fragments.
NoEmptyPage ==
  \A p \in 1..Len(pages) : Len(pages[p].fragments) > 0

-----------------------------------------------------------------------------
(* Forced breaks *)

\* C9: every fragment of a block with forceBreakBefore = true is the first
\* fragment of its page.
ForcedBreakFirst ==
  \A x \in placements :
    sourceOf(fragAt(x)).forceBreakBefore => x.pos = 1

\* a block with a CSS forced break starts a page although the page before
\* had room for a first part of it
ForcedBreakWitness ==
  \E x \in placements :
    /\ x.page > 1 /\ x.pos = 1
    /\ sourceOf(fragAt(x)).forceBreakBefore
    /\ ~sourceOf(fragAt(x)).isHeading
    /\ fragAt(x).block = sourceOf(fragAt(x))
    /\ Len(allPages[x.page - 1].fragments) > 0
    /\ findSplitPoint(sourceOf(fragAt(x)),
                      resolved.contentHeight - pageLoad(allPages[x.page - 1]),
                      resolved) # Null

-----------------------------------------------------------------------------
(* Split placement *)

\* C10: the before-part of a split block is the last fragment of its page,
\* the after-part is the first fragment of the immediately following page,
\* nothing lies between them, and right after the split
\* remaining = contentHeight - heightAfter.
SplitPlacement ==
  /\ \A x \in placements :
       isBeforePart(fragAt(x)) =>
         /\ x.pos = Len(allPages[x.page].fragments)
         /\ x.page < Len(allPages)
         /\ Len(allPages[x.page + 1].fragments) >= 1
         /\ isAfterPartOf(allPages[x.page + 1].fragments[1], fragAt(x))
  /\ \A x \in placements :
       isAfterPart(fragAt(x)) =>
         /\ x.pos = 1
         /\ x.page > 1
         /\ isBeforePart(allPages[x.page - 1].fragments[Len(allPages[x.page - 1].fragments)])
         /\ isAfterPartOf(fragAt(x),
              allPages[x.page - 1].fragments[Len(allPages[x.page - 1].fragments)])
  /\ (pc = "loop" /\ Len(currentPage.fragments) = 1
        /\ isAfterPart(currentPage.fragments[1]))
       => remaining = resolved.contentHeight - placedHeight(currentPage.fragments[1])

\* a line split and a child split have both just been placed in some states
SplitPlacementWitness ==
  /\ pc = "loop"
  /\ Len(currentPage.fragments) = 1
  /\ isAfterPart(currentPage.fragments[1])
  /\ Len(pages[Len(pages)].fragments) > 1
  /\ remaining > 0

-----------------------------------------------------------------------------
(* Resolver constraints *)

\* C3: a split index k returned for a prose block of lineCount lines has
\* k >= orphanLines and lineCount - k >= widowLines, whatever the available
\* height; a prose block with lineCount < orphanLines + widowLines gets none.
OrphanWidow ==
  (pc = "probed" /\ probe.handler \in {"prose", "heuristics-prose"}) =>
    /\ split # Null =>
         /\ split.index >= resolved.orphanLines
         /\ probe.block.lineCount - split.index >= resolved.widowLines
    /\ (Has(probe.block, "lineCount")
          /\ probe.block.lineCount < resolved.orphanLines + resolved.widowLines)
         => split = Null

\* ProseHandler shifted the split left to keep widowLines lines for the next page
OrphanWidowWitness ==
  /\ pc = "probed" /\ probe.handler = "prose"
  /\ split # Null
  /\ split.index < probe.available \div probe.block.lineHeight
  /\ probe.block.lineCount - split.index = resolved.widowLines

\* C5: a split index k returned by the list (table) resolver for n items
\* (rows) has k >= minItemsForSplit and n - k >= minItemsForSplit
\* (minRowsForSplit on both sides); otherwise the resolver returns null.
MinimumGroupSize ==
  /\ (pc = "probed" /\ probe.handler = "list" /\ split # Null) =>
       /\ split.index >= resolved.minItemsForSplit
       /\ Len(probe.block.children) - split.index >= resolved.minItemsForSplit
  /\ (pc = "probed" /\ probe.handler = "table" /\ split # Null) =>
       /\ split.index >= resolved.minRowsForSplit
       /\ Len(probe.block.children) - split.index >= resolved.minRowsForSplit

\* the list resolver gave items back to the next page to reach the minimum
MinimumGroupSizeWitness ==
  /\ pc = "probed" /\ probe.handler = "list"
  /\ split # Null
  /\ resolved.minItemsForSplit = 2
  /\ Len(probe.block.children) - split.index = 2
  /\ probe.block.element.paddingTop
       + rangeHeight(probe.block.children, 0, split.index + 1) <= probe.available

-----------------------------------------------------------------------------
(* Tie-break *)

\* the largest member of a non-empty set of numbers
Largest(S) == CHOOSE k \in S : \A m \in S : m <= k

\* the height ListHandler.findSplitPoint has accumulated when it reaches
\* item k (0-based): list padding, the items before k and their overheads
listHeightBefore(block, k) ==
  block.element.paddingTop
  + Sum([m \in 1..k |->
           outerHeight(block.children[m])
           + (IF m = 1 THEN block.children[1].flatItem.leadingOverhead
              ELSE enterOverhead(block.children, m - 1))])

\* the split indices of the probed block that satisfy every constraint of
\* its type for the probed available height: the minimum on either side and
\* the part before the index fitting; for code, lines must remain beyond
\* those that fit; for a container, some child must overflow
validSplits ==
  LET b == probe.block
      a == probe.available
      n == IF Has(b, "children") THEN Len(b.children) ELSE 0
      lc == IF Has(b, "lineCount") THEN b.lineCount ELSE 0
  IN CASE probe.handler \in {"prose", "heuristics-prose"} ->
            {k \in 0..lc :
               /\ k >= resolved.orphanLines /\ lc - k >= resolved.widowLines
               /\ k * b.lineHeight <= a
               /\ probe.handler = "prose" =>
                    /\ a >= resolved.minContentLines * b.lineHeight
                    /\ 10 * a >= 6 * b.height}
       [] probe.handler = "code" ->
            {k \in 0..lc :
               /\ k >= 1 /\ lc - k >= 1
               /\ k * b.lineHeight + PADDING_HEIGHT <= a
               /\ lc - ((a - PADDING_HEIGHT) \div b.lineHeight) >= 1}
       [] probe.handler = "table" ->
            {k \in 0..n :
               /\ k >= resolved.minRowsForSplit /\ n - k >= resolved.minRowsForSplit
               /\ (IF Falsy(b, "theadHeight") THEN 0 ELSE b.theadHeight)
                    + rangeHeight(b.children, 0, k) <= a}
       [] probe.handler = "list" ->
            {k \in 0..n :
               /\ k >= resolved.minItemsForSplit /\ n - k >= resolved.minItemsForSplit
               /\ listHeightBefore(b, k) <= a}
       [] probe.handler = "container" ->
            {k \in 0..n :
               /\ k >= 1 /\ n - k >= 1
               /\ rangeHeight(b.children, 0, k) <= a
               /\ rangeHeight(b.children, 0, n) > a}
       [] OTHER -> {}

\* C11: whenever some split index of the probed block satisfies all
\* constraints of its type for the available height, the resolver returns
\* the largest such index.
TieBreak ==
  (pc = "probed" /\ validSplits # {}) =>
    split # Null /\ split.index = Largest(validSplits)

-----------------------------------------------------------------------------
(* Fragments of child-based splits *)

\* f shows only some of the children of the block it was made from
isChildSplitPart(f) ==
  /\ Has(sourceOf(f), "children") /\ Has(f.block, "children")
  /\ Len(f.block.children) < Len(sourceOf(f).children)

\* C12: every fragment that holds one part of a child-based split (list,
\* table or container) carries isPartial = true.
ChildSplitPartial ==
  \A x \in placements : isChildSplitPart(fragAt(x)) => fragAt(x).isPartial

-----------------------------------------------------------------------------
(* Keep-together *)

\* C13: a block whose element is marked keep-together is measured with
\* canSplit = false, and every fragment made from it shows the whole block.
KeepTogether ==
  \A k \in 1..Len(blocks) :
    blocks[k].element.keepTogether =>
      /\ ~blocks[k].canSplit
      /\ \A x \in placements :
           fragAt(x).block.element.id = blocks[k].element.id =>
             ~fragAt(x).isPartial /\ fragAt(x).block = blocks[k]

-----------------------------------------------------------------------------
(* Table header on continuation pages *)

-----------------------------------------------------------------------------
(* H1 headings *)

\* C15: an H1 is never placed on a page after other content: the fragment
\* holding it is the first of its page and, inside a group of consecutive
\* headings, the H1 is the first member.
H1StartsPage ==
  \A x \in placements :
    IF Has(fragAt(x).block, "children") /\ fragAt(x).block.type = "heading-group"
    THEN \A m \in 1..Len(fragAt(x).block.children) :
           fragAt(x).block.children[m].element.tag = "H1" => (x.pos = 1 /\ m = 1)
    ELSE fragAt(x).block.element.tag = "H1" => x.pos = 1

-----------------------------------------------------------------------------
(* groupConsecutiveHeadings on its own: one call on a measured sequence *)

\* longest sequence of measured blocks handed to groupConsecutiveHeadings
MaxRun == 4

\* the elements the sequences are made of: headings with different margins
\* and break flags, a paragraph and an image
GroupingShapes ==
  { Heading("H1"), Heading("H2"),
    El("H3", 30, 0, 20),
    [El("H4", 30, 20, 0) EXCEPT !.breakBefore = TRUE],
    Para(60, 10, 10), Img(60) }

GroupingInputs == UNION {[1..n -> GroupingShapes] : n \in 0..MaxRun}

InitGrouping ==
  /\ resolved = [DEFAULT_OPTIONS EXCEPT !.contentHeight = 200, !.pageHeight = 388]
  /\ \E doc \in GroupingInputs :
       probe = [handler |-> "group",
                input |-> [k \in 1..Len(doc) |-> measure(WithId(doc[k], k), resolved)]]
  /\ blocks = <<>>
  /\ pc = "measured"
  /\ split = Null
  /\ i = 0
  /\ pages = <<>>
  /\ currentPage = createPage(0, resolved.orientation)
  /\ remaining = resolved.contentHeight
  /\ result = Null
  /\ flatItems = <<>>
  /\ pageStartIndex = 0
  /\ folio = Null
  /\ state = Null

\* blocks = groupConsecutiveHeadings(blocks)
GroupHeadings ==
  /\ pc = "measured"
  /\ blocks' = groupConsecutiveHeadings(probe.input)
  /\ pc' = "grouped"
  /\ UNCHANGED <<folio, state, resolved, i, pages, currentPage, remaining, result, probe, split, flatItems, pageStartIndex>>

NextGrouping == GroupHeadings

SpecGrouping == InitGrouping /\ [][NextGrouping]_vars

\* a block made by groupConsecutiveHeadings out of a run of headings
isGroup(b) == b.isHeading /\ Has(b, "children")

\* the input blocks an output block stands for
membersOf(b) == IF isGroup(b) THEN b.children ELSE <<b>>

\* C16: the output of groupConsecutiveHeadings, with every group expanded
\* into its children, is the input in its original order; every group holds
\* two or more headings, cannot split and has the force-break flag of its
\* first member; and no two adjacent output blocks are both headings.
HeadingsGrouped ==
  pc = "grouped" =>
    /\ Concat([k \in 1..Len(blocks) |-> membersOf(blocks[k])]) = probe.input
    /\ \A k \in 1..Len(blocks) :
         isGroup(blocks[k]) =>
           /\ Len(blocks[k].children) >= 2
           /\ \A m \in 1..Len(blocks[k].children) : blocks[k].children[m].isHeading
           /\ blocks[k].type = "heading-group"
           /\ ~blocks[k].canSplit
           /\ blocks[k].forceBreakBefore = blocks[k].children[1].forceBreakBefore
    /\ \A k \in 1..(Len(blocks) - 1) : ~(blocks[k].isHeading /\ blocks[k + 1].isHeading)

\* two separate runs of headings were grouped around a block that is not a
\* heading
HeadingsGroupedWitness ==
  /\ pc = "grouped"
  /\ Len(blocks) = 2
  /\ Len(probe.input) = 4
  /\ isGroup(blocks[1]) /\ Len(blocks[1].children) = 3
  /\ ~blocks[2].isHeading

\* what the margins lying between consecutive members of a run can add up
\* to: adjoining margins added, collapsed to the larger one, or the bottom
\* margins alone
interMemberMargins(ms) ==
  { Sum([m \in 1..(Len(ms) - 1) |-> ms[m].marginBottom + ms[m + 1].marginTop]),
    Sum([m \in 1..(Len(ms) - 1) |-> Max(ms[m].marginBottom, ms[m + 1].marginTop)]),
    Sum([m \in 1..(Len(ms) - 1) |-> ms[m].marginBottom]) }

\* C17: the height of a heading group is the sum of its members' heights
\* plus the margins lying between consecutive members, and nothing else.
GroupHeight ==
  pc = "grouped" =>
    \A k \in 1..Len(blocks) :
      isGroup(blocks[k]) =>
        blocks[k].height
          - Sum([m \in 1..Len(blocks[k].children) |-> blocks[k].children[m].height])
          \in interMemberMargins(blocks[k].children)

-----------------------------------------------------------------------------
(* Errors *)

\* a measured block that breaks the data model: a negative length, or a
\* prose block without lineHeight
violatesDataModel(b) ==
  \/ b.height < 0 \/ b.marginTop < 0 \/ b.marginBottom < 0
  \/ (b.type = "prose" /\ ~Has(b, "lineHeight"))

\* C18: when some input block violates the data model, paginate places no
\* fragment on any page and what it returns is an error, not pages.
InvalidInputFailsFast ==
  (\E k \in 1..Len(blocks) : violatesDataModel(blocks[k])) =>
    /\ placements = {}
    /\ pc = "done" => (Has(result, "error") /\ result.pages = <<>>)

\* C19: an iteration whose splittable block does not fit and gets no split
\* point ends with the block placed whole, after an advance when the page
\* it met was not empty; the loop goes on to the next block and no error
\* is raised.
SplitRejectedFallback ==
  [][(pc = "loop" /\ i < Len(blocks) /\ branchTaken = "rejected") =>
       LET met == beforeFit(cur, blockAtI, blockAfterI, resolved)
       IN /\ pc' = "loop" /\ i' = i + 1
          /\ currentPage'.fragments # <<>>
          /\ currentPage'.fragments[Len(currentPage'.fragments)] = fullFragment(blockAtI)
          /\ IF Len(met.currentPage.fragments) > 0
             THEN /\ pages' = Append(met.pages, met.currentPage)
                  /\ Len(currentPage'.fragments) = 1
             ELSE /\ pages' = met.pages
                  /\ Len(currentPage'.fragments) = 1]_vars

\* a splittable block that got no split point stands whole at the top of a
\* fresh page, behind a page that was not empty
SplitRejectedWitness ==
  /\ pc = "loop" /\ i > 0
  /\ blocks[i].canSplit
  /\ ~blocks[i].forceBreakBefore /\ ~blocks[i].isHeading
  /\ currentPage.fragments = <<fullFragment(blocks[i])>>
  /\ Len(pages) > 0
  /\ Len(pages[Len(pages)].fragments) > 0

-----------------------------------------------------------------------------
(* The flattened-document variant: flattenDocument and its paginate, which *)
(* backtracks by resetting the loop index                                  *)

CONTAINER_ELEMENTS ==
  {"DIV", "SECTION", "ARTICLE", "ASIDE", "NAV", "HEADER", "FOOTER",
   "BLOCKQUOTE", "UL", "OL", "DL", "FIGURE"}

getElementType(el) ==
  IF el.tag \in ATOMIC_TAGS THEN "atomic"
  ELSE IF el.tag \in HEADING_TAGS THEN "heading-group"
  ELSE IF el.tag = "P" THEN "prose"
  ELSE IF el.tag \in {"PRE", "CODE"} THEN "line-based"
  ELSE IF el.tag = "TABLE" THEN "table"
  ELSE IF el.tag \in {"LI", "TR"} THEN "semantic-sequence"
  ELSE IF el.tag \in {"DT", "DD", "FIGCAPTION"} THEN "semantic-pair"
  ELSE IF el.className \in {"math", "katex", "mathjax", "mermaid", "diagram", "chart"}
  THEN "atomic"
  ELSE "container"

canElementSplit(el, type, options) ==
  IF getCSSBreakInside(el) = "avoid" THEN FALSE
  ELSE CASE type \in {"atomic", "semantic-pair", "heading-group"} -> FALSE
         [] type = "prose" ->
              estimateLineCount(el, el.lineHeight)
                >= options.orphanLines + options.widowLines
         [] type \in {"line-based", "semantic-sequence"} -> TRUE
         [] OTHER -> FALSE

\* the item flattenDocument pushes for a heading element
flatHeading(el) ==
  [element |-> el, depth |-> headingLevelOf(el.tag), height |-> el.offsetHeight,
   marginTop |-> el.marginTop, marginBottom |-> el.marginBottom,
   type |-> "heading-group", canSplit |-> FALSE,
   forceBreakBefore |-> (shouldForceBreakBefore(el) \/ el.tag = "H1"),
   isHeading |-> TRUE, headingLevel |-> headingLevelOf(el.tag)]

\* the item flattenDocument pushes for a table element
flatTable(el, depth) ==
  [element |-> el, depth |-> depth, height |-> el.offsetHeight,
   marginTop |-> el.marginTop, marginBottom |-> el.marginBottom,
   type |-> "table", canSplit |-> FALSE, forceBreakBefore |-> FALSE,
   isHeading |-> FALSE]

\* the item flattenDocument pushes for a content element
flatContent(el, type, depth, options) ==
  LET item == [element |-> el, depth |-> depth, height |-> el.offsetHeight,
               marginTop |-> el.marginTop, marginBottom |-> el.marginBottom,
               type |-> type, canSplit |-> canElementSplit(el, type, options),
               forceBreakBefore |-> shouldForceBreakBefore(el),
               isHeading |-> FALSE]
  IN IF type \in {"prose", "line-based"}
     THEN Extend(item, [lineHeight |-> el.lineHeight,
                        lineCount |-> estimateLineCount(el, el.lineHeight)])
     ELSE item

RECURSIVE traverse(_, _, _, _)
RECURSIVE traverseAll(_, _, _, _)
\* "for (const child of el.children) traverse(child, nestingLevel)"; acc
\* holds items and currentHeadingDepth
traverseAll(els, nestingLevel, acc, options) ==
  IF els = <<>> THEN acc
  ELSE traverseAll(Tail(els), nestingLevel,
                   traverse(Head(els), nestingLevel, acc, options), options)

\* traverse of flattenDocument
traverse(el, nestingLevel, acc, options) ==
  LET type == getElementType(el)
      chd == acc.currentHeadingDepth
  IN IF options.skipEmptyElements /\ isEmpty(el) THEN acc
     ELSE IF el.tag \in HEADING_TAGS
     THEN [items |-> Append(acc.items, flatHeading(el)),
           currentHeadingDepth |-> headingLevelOf(el.tag)]
     ELSE IF el.tag \in CONTAINER_ELEMENTS \/ type = "container"
     THEN traverseAll(el.children, nestingLevel + 1, acc, options)
     ELSE IF type = "table"
     THEN [acc EXCEPT !.items =
             Append(@, flatTable(el, IF chd = 0 THEN 10 ELSE chd + nestingLevel * 10))]
     ELSE
       LET depth == IF chd = 0 THEN 10 + nestingLevel * 10 ELSE chd + nestingLevel * 10
           pushed == [acc EXCEPT !.items = Append(@, flatContent(el, type, depth, options))]
       IN IF el.tag = "LI"
          THEN traverseAll(SelectSeq(el.children, LAMBDA c: c.tag \in {"UL", "OL"}),
                           nestingLevel + 1, pushed, options)
          ELSE pushed

flattenDocument(container, options) ==
  traverseAll(container.children, 1,
              [items |-> <<>>, currentHeadingDepth |-> 0], options).items

\* findParent: index (0-based) of the closest predecessor with lower depth
findParent(items, index) ==
  LET lower == {j \in 0..(index - 1) : items[j + 1].depth < items[index + 1].depth}
  IN IF lower = {} THEN -1 ELSE Largest(lower)

RECURSIVE countBefore(_, _, _, _)
\* Rule 3's first loop of findValidSplitPoint, from index j (0-based) down to
\* startIndex: consecutive sequence items at the given depth
countBefore(items, j, startIndex, depth) ==
  IF j < startIndex THEN 0
  ELSE IF items[j + 1].type = "semantic-sequence" /\ items[j + 1].depth = depth
  THEN 1 + countBefore(items, j - 1, startIndex, depth)
  ELSE IF items[j + 1].depth < depth THEN 0
  ELSE countBefore(items, j - 1, startIndex, depth)

RECURSIVE countAfter(_, _, _, _)
\* Rule 3's second loop of findValidSplitPoint, from index j (0-based) up
countAfter(items, j, ix, depth) ==
  IF j >= Len(items) THEN 0
  ELSE IF items[j + 1].type = "semantic-sequence" /\ items[j + 1].depth = depth
  THEN 1 + countAfter(items, j + 1, ix, depth)
  ELSE IF items[j + 1].depth <= depth /\ j > ix THEN 0
  ELSE countAfter(items, j + 1, ix, depth)

\* the body of findValidSplitPoint's loop reaches "return i" at index ix
\* (0-based, ix > startIndex)
isValidSplit(items, startIndex, ix, options) ==
  LET item == items[ix + 1]
      prevItem == items[ix]
      parentIdx == findParent(items, ix)
  IN /\ ~prevItem.isHeading
     /\ ~(/\ item.type = "semantic-pair" \/ prevItem.type = "semantic-pair"
          /\ item.depth = prevItem.depth)
     /\ ~(/\ item.type = "semantic-sequence" /\ prevItem.type = "semantic-sequence"
          /\ \/ countBefore(items, ix - 1, startIndex, item.depth)
                  < options.minItemsForSplit
             \/ countAfter(items, ix, ix, item.depth) < options.minItemsForSplit)
     /\ ~(/\ parentIdx >= startIndex /\ parentIdx < ix
          /\ items[parentIdx + 1].isHeading
          /\ \A j \in (parentIdx + 1)..(ix - 1) : items[j + 1].isHeading)

\* findValidSplitPoint that falls back to the start of the page
findValidSplitPointOrPageStart(items, startIndex, currentIndex, options) ==
  LET valid == {ix \in (startIndex + 1)..currentIndex :
                  isValidSplit(items, startIndex, ix, options)}
  IN IF valid = {} THEN startIndex ELSE Largest(valid)

\* findValidSplitPoint: walking back from currentIndex, the first index
\* above startIndex that passes every rule; -1 when there is none
findValidSplitPoint(items, startIndex, currentIndex, options) ==
  LET valid == {ix \in (startIndex + 1)..currentIndex :
                  isValidSplit(items, startIndex, ix, options)}
  IN IF valid = {} THEN -1 ELSE Largest(valid)

\* checkHeadingMinContent of the flattened variant.
\* min(a, h / 3, h) <= s is a <= s or h <= 3 * s or h <= s.
checkHeadingMinContentFlat(items, headingIndex, space, options) ==
  LET heading == items[headingIndex + 1]
      spaceAfterHeading == space - (heading.height + heading.marginTop)
      nextIndex == headingIndex + 1
  IN IF nextIndex >= Len(items) THEN TRUE
     ELSE LET nextItem == items[nextIndex + 1]
              lineHeight == IF Has(nextItem, "lineHeight") THEN nextItem.lineHeight ELSE 20
          IN \/ options.minContentLines * lineHeight <= spaceAfterHeading
             \/ nextItem.height <= 3 * spaceAfterHeading
             \/ nextItem.height <= spaceAfterHeading

flatItemToBlock(item) ==
  [f \in {"element", "type", "height", "marginTop", "marginBottom", "canSplit",
          "forceBreakBefore", "isHeading", "headingLevel", "lineHeight",
          "lineCount"} \cap DOMAIN item |-> item[f]]

\* pages.push(currentPage); currentPage = createPage(...); remaining =
\* resolved.contentHeight; pageStartIndex = start
flatAdvance(st, start, options) ==
  [pages |-> Append(st.pages, st.currentPage),
   currentPage |-> createPage(Len(st.pages) + 1, options.orientation),
   remaining |-> options.contentHeight,
   pageStartIndex |-> start]

\* "Force break before (H1 or CSS)" and "Check heading + min content rule"
flatBeforeFit(st, items, ix, options) ==
  LET item == items[ix + 1]
      broken == IF item.forceBreakBefore /\ Len(st.currentPage.fragments) > 0
                THEN flatAdvance(st, ix, options) ELSE st
  IN IF /\ item.isHeading
        /\ ~checkHeadingMinContentFlat(items, ix, broken.remaining, options)
        /\ Len(broken.currentPage.fragments) > 0
     THEN flatAdvance(broken, ix, options) ELSE broken

\* currentPage.fragments.push({ block, isPartial: false });
\* currentPage.height += totalHeight
flatPush(page, item) ==
  [page EXCEPT !.fragments = Append(@, fullFragment(flatItemToBlock(item))),
               !.height = @ + totalHeightOf(item)]

\* which way the iteration for item ix goes once it reaches the fit test
flatBranch(st, items, ix, options) ==
  IF totalHeightOf(items[ix + 1]) <= st.remaining THEN "fits"
  ELSE LET splitIndex == findValidSplitPoint(items, st.pageStartIndex, ix, options)
       IN IF splitIndex >= 0 /\ splitIndex < ix THEN "backtrack" ELSE "nosplit"

\* "Item fits entirely"
flatPlace(st, item) ==
  [st EXCEPT !.currentPage = flatPush(@, item),
             !.remaining = @ - totalHeightOf(item)]

\* "We can split before this item - backtrack": pop the fragments from
\* splitIndex on and start a new page there
flatBacktrack(st, ix, splitIndex, options) ==
  LET frags == st.currentPage.fragments
      popped == Min(ix - splitIndex, Len(frags))
      removed == SubSeq(frags, Len(frags) - popped + 1, Len(frags))
      trimmed == [st.currentPage EXCEPT
                    !.fragments = SubSeq(frags, 1, Len(frags) - popped),
                    !.height = @ - Sum([k \in 1..popped |-> totalHeightOf(removed[k].block)])]
  IN flatAdvance([st EXCEPT !.currentPage = trimmed], splitIndex, options)

\* "Can't find valid split - start new page with this item"
flatNoSplit(st, ix, item, options) ==
  LET fresh == IF Len(st.currentPage.fragments) > 0
               THEN flatAdvance(st, ix, options) ELSE st
  IN [fresh EXCEPT !.currentPage = flatPush(@, item),
                   !.remaining = Max(0, @ - totalHeightOf(item))]

\* most top-level elements of a document given to the flattened variant
MaxFlatBlocks == 3

\* <dl> with one term and its description
DefList ==
  [El("DL", 80, 0, 0) EXCEPT
     !.children = Numbered(<<El("DT", 30, 0, 0), El("DD", 50, 0, 0)>>)]

FlatShapes ==
  { Heading("H2"), Heading("H1"), Para(60, 10, 10), Img(120), Img(260),
    FlatList(3, 0), DefList }

FlatDocuments == UNION {[1..n -> FlatShapes] : n \in 0..MaxFlatBlocks}

InitFlat ==
  /\ resolved = [DEFAULT_OPTIONS EXCEPT !.contentHeight = 200, !.pageHeight = 388]
  /\ \E doc \in FlatDocuments :
       flatItems = flattenDocument([children |-> Numbered(doc)], resolved)
  /\ i = 0
  /\ pages = <<>>
  /\ currentPage = createPage(0, resolved.orientation)
  /\ remaining = resolved.contentHeight
  /\ pageStartIndex = 0
  /\ folio = Null
  /\ state = Null
  /\ pc = "loop"
  /\ result = Null
  /\ blocks = <<>>
  /\ probe = NoProbe
  /\ split = Null

flatCur ==
  [pages |-> pages, currentPage |-> currentPage, remaining |-> remaining,
   pageStartIndex |-> pageStartIndex]

\* the state in which the iteration for item i reaches the fit test
flatMet == flatBeforeFit(flatCur, flatItems, i, resolved)

\* the loop variables become those of st and the index becomes next
FlatStep(st, next) ==
  /\ pages' = st.pages
  /\ currentPage' = st.currentPage
  /\ remaining' = st.remaining
  /\ pageStartIndex' = st.pageStartIndex
  /\ i' = next
  /\ UNCHANGED <<folio, state, blocks, resolved, pc, result, probe, split, flatItems>>

\* an iteration whose item fits
FlatFits ==
  /\ pc = "loop" /\ i < Len(flatItems)
  /\ flatBranch(flatMet, flatItems, i, resolved) = "fits"
  /\ FlatStep(flatPlace(flatMet, flatItems[i + 1]), i + 1)

\* an iteration that backtracks: i = splitIndex - 1, then i++
FlatBacktrack ==
  /\ pc = "loop" /\ i < Len(flatItems)
  /\ flatBranch(flatMet, flatItems, i, resolved) = "backtrack"
  /\ LET splitIndex == findValidSplitPoint(flatItems, flatMet.pageStartIndex, i, resolved)
     IN FlatStep(flatBacktrack(flatMet, i, splitIndex, resolved), splitIndex)

\* an iteration whose item does not fit and has no split point before it
FlatNoSplit ==
  /\ pc = "loop" /\ i < Len(flatItems)
  /\ flatBranch(flatMet, flatItems, i, resolved) = "nosplit"
  /\ FlatStep(flatNoSplit(flatMet, i, flatItems[i + 1], resolved), i + 1)

\* "Add last page if it has content" and the return statement
FlatFinish ==
  /\ pc = "loop"
  /\ i >= Len(flatItems)
  /\ pages' = IF Len(currentPage.fragments) > 0 THEN Append(pages, currentPage) ELSE pages
  /\ result' = [pages |-> pages', totalPages |-> Len(pages'), options |-> resolved]
  /\ pc' = "done"
  /\ UNCHANGED <<folio, state, blocks, resolved, i, currentPage, remaining, probe, split,
                 flatItems, pageStartIndex>>

NextFlat ==
  \/ FlatFits
  \/ FlatBacktrack
  \/ FlatNoSplit
  \/ FlatFinish

\* the loop is sequential code: it keeps running until it returns
SpecFlat == InitFlat /\ [][NextFlat]_vars /\ WF_vars(NextFlat)

\* C20: the flattened paginate returns, with every item placed once and in
\* order; its page start index never moves back, and a step that does not
\* move the loop index forward is a backtrack to a new page start strictly
\* beyond the old one.
FlatTerminates ==
  /\ <>(pc = "done")
  /\ [](pc = "done" =>
          Concat([p \in 1..Len(result.pages) |->
                    [j \in 1..Len(result.pages[p].fragments) |->
                       result.pages[p].fragments[j].block]])
            = [k \in 1..Len(flatItems) |-> flatItemToBlock(flatItems[k])])
  /\ [][pageStartIndex' >= pageStartIndex]_vars
  /\ [][(pc' = "loop" /\ i' <= i) =>
          (pageStartIndex' > pageStartIndex /\ i' = pageStartIndex')]_vars

\* a backtrack has just happened: pages exist and the page under
\* construction is empty again, waiting for the item at the new page start
FlatBacktrackWitness ==
  /\ pc = "loop"
  /\ Len(pages) > 0
  /\ currentPage.fragments = <<>>
  /\ i = pageStartIndex /\ i < Len(flatItems)
  /\ Len(pages[Len(pages)].fragments) > 0

\* C32: in the flattened paginate no page break stands directly after a
\* heading: a page that was finalized with further items to come does not
\* end with a heading.
FlatNoBreakAfterHeading ==
  \A p \in 1..(IF pc = "done" /\ Len(currentPage.fragments) > 0
               THEN Len(pages) - 1 ELSE Len(pages)) :
    LET fragments == pages[p].fragments
    IN fragments # <<>> => ~fragments[Len(fragments)].block.isHeading

-----------------------------------------------------------------------------
(* Both variants of paginate side by side *)

\* a run of the handler-registry paginate or a run of the flattened variant
InitEither == Init \/ InitFlat

NextEither ==
  \/ (flatItems = <<>> /\ PlaceFits)
  \/ (flatItems = <<>> /\ SplitLine)
  \/ (flatItems = <<>> /\ SplitChild)
  \/ (flatItems = <<>> /\ SplitRejected)
  \/ (flatItems = <<>> /\ PlaceUnsplittable)
  \/ (flatItems = <<>> /\ Finish)
  \/ (blocks = <<>> /\ FlatFits)
  \/ (blocks = <<>> /\ FlatBacktrack)
  \/ (blocks = <<>> /\ FlatNoSplit)
  \/ (blocks = <<>> /\ FlatFinish)

SpecEither == InitEither /\ [][NextEither]_vars

\* C21: a page that has been pushed to the result list stays in it, at the
\* same position and with the same fragments and height, through every
\* later step, backtracking steps included.
PagesImmutable ==
  [][/\ Len(pages') >= Len(pages)
     /\ \A p \in 1..Len(pages) : pages'[p] = pages[p]]_vars

\* the flattened variant has backtracked while two or more pages were
\* already pushed
PagesImmutableWitness ==
  /\ flatItems # <<>>
  /\ pc = "loop"
  /\ Len(pages) >= 2
  /\ currentPage.fragments = <<>>
  /\ i = pageStartIndex

-----------------------------------------------------------------------------
(* The heading decision, seen from the pages *)

\* the keep-with-next condition for heading h, next block n (or Undefined)
\* and remaining height r; max(a, x / 3) <= s is max(3 * a, x) <= 3 * s
keepsWithNext(h, n, r) ==
  LET spaceAfterHeading == r - (h.height + h.marginTop)
      lineHeightOfNext == IF Has(n, "lineHeight") THEN n.lineHeight ELSE 20
  IN \/ n = Undefined
     \/ ~n.canSplit /\ n.height + n.marginTop <= spaceAfterHeading
     \/ n.canSplit /\ Max(3 * resolved.minContentLines * lineHeightOfNext, n.height)
                        <= 3 * spaceAfterHeading

-----------------------------------------------------------------------------
(* What the resolvers return, stated from the probed block *)

\* the least element of a non-empty set of integers
Smallest(S) == CHOOSE k \in S : \A m \in S : k <= m

\* height with margins of units[from..to] (1-based, inclusive)
heightOfUnits(units, from, to) ==
  Sum([k \in 1..(to - from + 1) |->
         units[from + k - 1].height + units[from + k - 1].marginTop
         + units[from + k - 1].marginBottom])

\* C27: for a measured paragraph, ProseHandler.findSplitPoint returns null
\* when available < max(minContentLines * lineHeight, 0.6 * height);
\* otherwise, when floor(available / lineHeight) >= orphanLines and
\* index = min(floor(available / lineHeight), lineCount - widowLines) is at
\* least orphanLines, it returns the line split at index with heightBefore =
\* index * lineHeight and heightAfter = (lineCount - index) * lineHeight.
ProseSplitExact ==
  (/\ pc = "probed" /\ probe.handler = "prose"
   /\ Has(probe.block, "lineCount") /\ Has(probe.block, "lineHeight")) =>
    LET lineCount == probe.block.lineCount
        lineHeight == probe.block.lineHeight
        tooLittle == 10 * probe.available
                       < Max(10 * resolved.minContentLines * lineHeight,
                             6 * probe.block.height)
        lines == probe.available \div lineHeight
        index == Min(lines, lineCount - resolved.widowLines)
    IN /\ tooLittle => split = Null
       /\ (~tooLittle /\ lines >= resolved.orphanLines /\ index >= resolved.orphanLines)
            => split = [type |-> "line", index |-> index,
                        heightBefore |-> index * lineHeight,
                        heightAfter |-> (lineCount - index) * lineHeight]

\* ten lines of 20, orphanLines 2, widowLines 2, 120 available: index 6,
\* heightBefore 120, heightAfter 80
ProseSplitExactWitness ==
  /\ pc = "probed" /\ probe.handler = "prose"
  /\ Has(probe.block, "lineCount") /\ Has(probe.block, "lineHeight")
  /\ probe.block.lineCount = 10 /\ probe.block.lineHeight = 20
  /\ probe.available = 120
  /\ resolved.orphanLines = 2 /\ resolved.widowLines = 2
  /\ split = [type |-> "line", index |-> 6, heightBefore |-> 120, heightAfter |-> 80]

\* C28: a split returned by TableHandler.findSplitPoint lies before the
\* first row that overflows the available height once the header is
\* counted, moved left to leave minRowsForSplit rows when fewer remain;
\* heightBefore is the header plus the rows before the split, heightAfter
\* the header plus the rows from the split on.
TableSplitExact ==
  (pc = "probed" /\ probe.handler = "table" /\ split # Null) =>
    LET rows == probe.block.children
        head == IF Has(probe.block, "theadHeight") THEN probe.block.theadHeight ELSE 0
        overflowing == {k \in 1..Len(rows) :
                          head + heightOfUnits(rows, 1, k) > probe.available}
        first == Smallest(overflowing) - 1
        index == IF Len(rows) - first < resolved.minRowsForSplit
                 THEN Len(rows) - resolved.minRowsForSplit ELSE first
    IN /\ overflowing # {}
       /\ split = [type |-> "child", index |-> index,
                   heightBefore |-> head + heightOfUnits(rows, 1, index),
                   heightAfter |-> head + heightOfUnits(rows, index + 1, Len(rows))]

\* ten rows of 20, header 30, minRowsForSplit 2, 200 available: index 8,
\* heightAfter 70
TableSplitExactWitness ==
  /\ pc = "probed" /\ probe.handler = "table"
  /\ Has(probe.block, "children") /\ Has(probe.block, "theadHeight")
  /\ Len(probe.block.children) = 10 /\ probe.block.theadHeight = 30
  /\ probe.available = 200 /\ resolved.minRowsForSplit = 2
  /\ split = [type |-> "child", index |-> 8, heightBefore |-> 190, heightAfter |-> 70]

\* item j (1-based) of a flattened list is an ancestor of item k
isAncestorItem(items, j, k) ==
  /\ j < k
  /\ items[j].flatItem.depth < items[k].flatItem.depth
  /\ \A m \in (j + 1)..(k - 1) : items[m].flatItem.depth > items[j].flatItem.depth

\* what the part of a split list that starts at item first charges item k
\* on top of its own height
chargedOverhead(items, k, first) ==
  IF k = first THEN items[k].flatItem.leadingOverhead
  ELSE IF items[k].flatItem.depth > items[k - 1].flatItem.depth
  THEN items[k - 1].flatItem.nestedListOverhead
  ELSE 0

\* height of items[first..last] as one part of a split list
partHeight(block, first, last) ==
  block.element.paddingTop
    + heightOfUnits(block.children, first, last)
    + Sum([k \in 1..(last - first + 1) |->
             chargedOverhead(block.children, first + k - 1, first)])
    + block.element.paddingBottom

\* C29: in a measured list every item's leadingOverhead is the sum of the
\* nestedListOverhead of its ancestor items, and a split returned by
\* ListHandler.findSplitPoint has, in each part, the items' heights plus the
\* previous item's nestedListOverhead at every depth increase inside the
\* part, plus the leadingOverhead of the part's first item, plus the list's
\* padding.
ListOverheads ==
  (pc = "probed" /\ probe.handler = "list" /\ Has(probe.block, "children")) =>
    LET items == probe.block.children
    IN /\ \A k \in 1..Len(items) :
            items[k].flatItem.leadingOverhead
              = Sum([j \in 1..(k - 1) |->
                       IF isAncestorItem(items, j, k)
                       THEN items[j].flatItem.nestedListOverhead ELSE 0])
       /\ split # Null =>
            /\ split.heightBefore = partHeight(probe.block, 1, split.index)
            /\ split.heightAfter
                 = partHeight(probe.block, split.index + 1, Len(items))

\* a split whose continuation starts two levels deep, below ancestors with
\* different overheads, and whose first part enters a nested list
ListOverheadsWitness ==
  /\ pc = "probed" /\ probe.handler = "list" /\ split # Null
  /\ probe.block.children[split.index + 1].flatItem.depth = 2
  /\ probe.block.children[split.index + 1].flatItem.leadingOverhead = 22
  /\ \E k \in 2..split.index :
       probe.block.children[k].flatItem.depth
         > probe.block.children[k - 1].flatItem.depth

\* C30: every split point returned by the prose, code, container, list or
\* table resolver has heightBefore <= the available height it was called with.
SplitFitsAvailable ==
  (/\ pc = "probed" /\ split # Null
   /\ probe.handler \in {"prose", "code", "container", "list", "table"}) =>
    split.heightBefore <= probe.available

-----------------------------------------------------------------------------
(* The resolvers of heuristics.ts *)

\* C31: the exported findSplitPoint of heuristics.ts, given a
\* 'semantic-sequence' block, returns null when the block has fewer than
\* 2 * minItemsForSplit children, and a split index it returns has at least
\* minItemsForSplit children before it and at least minItemsForSplit after it.
SequenceMinItems ==
  (/\ pc = "probed" /\ probe.handler = "heuristics"
   /\ probe.block.type = "semantic-sequence" /\ Has(probe.block, "children")) =>
    /\ Len(probe.block.children) < 2 * resolved.minItemsForSplit => split = Null
    /\ split # Null =>
         /\ split.index >= resolved.minItemsForSplit
         /\ Len(probe.block.children) - split.index >= resolved.minItemsForSplit

-----------------------------------------------------------------------------
(* paginateV2: fill until overflow.  The DOM is the sequence state.dom of  *)
(* nodes, a node being named by its index.  A node made by cloneNode(true) *)
(* carries its source element whole (content = TRUE, el with children) and *)
(* gets no kids; a node made by cloneNode(false) or createElement carries  *)
(* the element without text or children (content = FALSE) and gets its     *)
(* kids by appendChild.  Heights add up as in block layout without margins.*)

\* a source element: tag name, height of its own text, identity, child elements
V2El(tag, h, id, children) ==
  [tag |-> tag, h |-> h, id |-> id, children |-> children]

RECURSIVE elementHeight(_)
\* rendered height of a source element with everything in it
elementHeight(el) ==
  el.h + Sum([k \in 1..Len(el.children) |-> elementHeight(el.children[k])])

RECURSIVE nodeHeight(_, _)
\* rendered height of node n
nodeHeight(dom, n) ==
  (IF dom[n].content THEN elementHeight(dom[n].el) ELSE 0)
    + Sum([k \in 1..Len(dom[n].kids) |-> nodeHeight(dom, dom[n].kids[k])])

\* state.measureBox.scrollHeight: the measure box holds the current page only
scrollHeight(st) == nodeHeight(st.dom, st.currentPage)

RECURSIVE attached(_, _, _)
\* whether node n lies in the tree under root
attached(dom, n, root) ==
  n = root \/ (dom[n].parent # 0 /\ attached(dom, dom[n].parent, root))

\* HTMLElement.offsetHeight: 0 for an element that is not rendered
offsetHeight(st, n) ==
  IF attached(st.dom, n, st.currentPage) THEN nodeHeight(st.dom, n) ELSE 0

\* cloneNode / createElement: the new node is the last of st.dom, detached
createNode(st, el, content) ==
  [st EXCEPT !.dom = Append(@, [el |-> el, content |-> content,
                                kids |-> <<>>, parent |-> 0])]

\* element.cloneNode(false) seen as an element
stripped(el) == [el EXCEPT !.children = <<>>]

\* Element.remove()
removeNode(st, n) ==
  LET p == st.dom[n].parent
  IN IF p = 0 THEN st
     ELSE [st EXCEPT !.dom[p].kids = SelectSeq(@, LAMBDA k : k # n),
                     !.dom[n].parent = 0]

\* Node.appendChild(n): n leaves its former parent first
appendChild(st, p, n) ==
  LET d == removeNode(st, n)
  IN [d EXCEPT !.dom[p].kids = Append(@, n), !.dom[n].parent = p]

RECURSIVE appendAll(_, _, _)
\* "for (const heading of trailingHeadings) target.appendChild(heading)"
appendAll(st, p, ns) ==
  IF ns = <<>> THEN st ELSE appendAll(appendChild(st, p, Head(ns)), p, Tail(ns))

\* p.appendChild(el.cloneNode(true)); the clone is the last node of the result
appendClone(st, p, el) == appendChild(createNode(st, el, TRUE), p, Len(st.dom) + 1)

\* p.appendChild(el.cloneNode(false)) and p.appendChild(createElement(tag))
appendShell(st, p, el) ==
  appendChild(createNode(st, stripped(el), FALSE), p, Len(st.dom) + 1)

createPageDiv == V2El("DIV", 0, 0, <<>>)

getCurrentTarget(st) ==
  IF Len(st.ancestorStack) > 0
  THEN st.ancestorStack[Len(st.ancestorStack)].element
  ELSE st.currentPage

\* state.ancestorStack.push(info)
pushAncestor(st, info) == [st EXCEPT !.ancestorStack = Append(@, info)]

\* state.ancestorStack.pop()
popAncestor(st) ==
  [st EXCEPT !.ancestorStack = IF @ = <<>> THEN @ ELSE SubSeq(@, 1, Len(@) - 1)]

RECURSIVE cloneDeep(_, _)
\* node.cloneNode(true) as a value: the tree under n as it is now
cloneDeep(dom, n) ==
  [el |-> dom[n].el, content |-> dom[n].content,
   kids |-> [k \in 1..Len(dom[n].kids) |-> cloneDeep(dom, dom[n].kids[k])]]

finalizePage(st) ==
  [st EXCEPT !.pages = Append(@, [element |-> cloneDeep(st.dom, st.currentPage),
                                  pageNumber |-> Len(@) + 1])]

RECURSIVE trailingLoop(_, _, _)
\* the while loop of popTrailingHeadings
trailingLoop(st, page, headings) ==
  LET kids == st.dom[page].kids
  IN IF kids = <<>> THEN [st |-> st, headings |-> headings]
     ELSE LET last == kids[Len(kids)]
          IN IF st.dom[last].el.tag \in HEADING_TAGS
             THEN trailingLoop(removeNode(st, last), page, <<last>> \o headings)
             ELSE [st |-> st, headings |-> headings]

\* popTrailingHeadings without its loop: nothing is removed
popTrailingHeadingsNone(st, page) == [st |-> st, headings |-> <<>>]

\* the page without its trailing headings, and the headings removed
popTrailingHeadings(st, page) == trailingLoop(st, page, <<>>)

RECURSIVE reopenFrom(_, _, _, _)
\* the for loop of reopenAncestors from the k-th entry of the old stack on
reopenFrom(st, oldStack, k, target) ==
  IF k > Len(oldStack) THEN st
  ELSE LET ancestor == oldStack[k]
           \* "if (ancestor.thead && reopened.tagName === 'TABLE')"
           withThead(s, reopened) ==
             IF ancestor.thead # Undefined /\ s.dom[reopened].el.tag = "TABLE"
             THEN appendClone(s, reopened, ancestor.thead)
             ELSE s
           \* s is the state with the reopened shell as its last node
           pushed(s) ==
             reopenFrom(pushAncestor(withThead(s, Len(s.dom)),
                                     [element |-> Len(s.dom),
                                      thead |-> ancestor.thead]),
                        oldStack, k + 1, Len(s.dom))
       IN pushed(appendShell(st, target, st.dom[ancestor.element].el))

reopenAncestorsOnTop(st) ==
  reopenFrom(st, st.ancestorStack, 1, st.currentPage)

\* reopenAncestors: the stack is emptied and rebuilt, one shell per entry
reopenAncestors(st) ==
  reopenFrom([st EXCEPT !.ancestorStack = <<>>], st.ancestorStack, 1, st.currentPage)

startNewPage(st) ==
  LET popped == popTrailingHeadings(st, st.currentPage)
      \* s is the state with the new page div as its last node
      fresh(s) == reopenAncestors([s EXCEPT !.currentPage = Len(s.dom)])
      \* "for (const heading of trailingHeadings) target.appendChild(heading)"
      moved(s) == appendAll(s, getCurrentTarget(s), popped.headings)
  IN moved(fresh(createNode(finalizePage(popped.st), createPageDiv, FALSE)))

isSplittable(el) ==
  /\ el.tag \in {"UL", "OL", "DIV", "BLOCKQUOTE", "SECTION", "ARTICLE", "DL", "LI"}
  /\ Len(el.children) > 1

\* el.querySelector restricted to the child elements of el: the first child
\* with one of the tags, or null
queryChild(el, tags) ==
  LET hits == SelectSeq(el.children, LAMBDA c : c.tag \in tags)
  IN IF hits = <<>> THEN Null ELSE hits[1]

\* tbody.querySelectorAll(':scope > tr') with tbody = the tbody or the table
rowsOf(table) ==
  LET tbody == IF queryChild(table, {"TBODY"}) # Null
               THEN queryChild(table, {"TBODY"}) ELSE table
  IN SelectSeq(tbody.children, LAMBDA c : c.tag = "TR")

\* Array.prototype.slice(start): a negative start counts from the end
sliceFrom(s, start) ==
  LET from == IF start < 0 THEN Max(Len(s) + start, 0) ELSE Min(start, Len(s))
  IN SubSeq(s, from + 1, Len(s))

RECURSIVE removeLastChildren(_, _, _)
\* "for (j < rowsToMove && tbodyClone.lastChild) tbodyClone.lastChild.remove()"
removeLastChildren(st, n, count) ==
  IF count <= 0 \/ st.dom[n].kids = <<>> THEN st
  ELSE removeLastChildren(removeNode(st, st.dom[n].kids[Len(st.dom[n].kids)]),
                          n, count - 1)

\* the table shell with thead and empty tbody that both table functions
\* build in the current target, pushed on the ancestor stack; the tbody is
\* the last node of the result and the table the parent of it
openTable(table, thead, st) ==
  LET \* s is the state with the tbody shell as its last node
      pushBoth(s, tableClone) ==
        pushAncestor(
          pushAncestor(s, [element |-> tableClone,
                           thead |-> IF thead # Null THEN thead ELSE Undefined]),
          [element |-> Len(s.dom), thead |-> Undefined])
      \* s is the state with the table shell as its last node
      filled(s) ==
        pushBoth(appendShell(IF thead # Null
                             THEN appendClone(s, Len(s.dom), thead) ELSE s,
                             Len(s.dom), V2El("TBODY", 0, 0, <<>>)),
                 Len(s.dom))
  IN filled(appendShell(st, getCurrentTarget(st), table))

RECURSIVE processRemainingRows(_, _, _, _)
RECURSIVE remainingRowsOpened(_, _, _, _)
RECURSIVE remainingRowsLoop(_, _, _, _, _, _, _)
RECURSIVE remainingRowPlaced(_, _, _, _, _, _, _)

\* the body of the for loop of processRemainingRows after
\* "tbodyClone.appendChild(rowClone)": s is the state with the row clone as
\* its last node
remainingRowPlaced(originalTable, rows, thead, ix, tbodyClone, fittedCount, s) ==
  IF scrollHeight(s) > s.maxHeight
  THEN IF fittedCount < 1
       THEN remainingRowsLoop(originalTable, rows, thead, ix + 1, tbodyClone,
                              fittedCount + 1,
                              appendChild(removeNode(s, Len(s.dom)),
                                          tbodyClone, Len(s.dom)))
       ELSE processRemainingRows(
              originalTable, sliceFrom(rows, ix), thead,
              startNewPage(popAncestor(popAncestor(removeNode(s, Len(s.dom))))))
  ELSE remainingRowsLoop(originalTable, rows, thead, ix + 1, tbodyClone,
                         fittedCount + 1, s)

\* the for loop of processRemainingRows from row ix (0-based) on
remainingRowsLoop(originalTable, rows, thead, ix, tbodyClone, fittedCount, st) ==
  IF ix >= Len(rows) THEN popAncestor(popAncestor(st))
  ELSE remainingRowPlaced(originalTable, rows, thead, ix, tbodyClone, fittedCount,
                          appendClone(st, tbodyClone, rows[ix + 1]))

\* processRemainingRows from its for loop on: s is the state with the tbody
\* shell as its last node
remainingRowsOpened(originalTable, rows, thead, s) ==
  remainingRowsLoop(originalTable, rows, thead, 0, Len(s.dom), 0, s)

processRemainingRows(originalTable, rows, thead, st) ==
  IF Len(rows) = 0 THEN st
  ELSE remainingRowsOpened(originalTable, rows, thead,
                           openTable(originalTable, thead, st))

RECURSIVE tableRowsLoop(_, _, _, _, _, _, _)
RECURSIVE tableRowPlaced(_, _, _, _, _, _, _)

\* "if (state.measureBox.scrollHeight > state.maxHeight)" in the for loop of
\* trySplitTable, after "rowClone.remove()": s is the state with the row
\* clone removed again
tableRowOverflow(table, rows, thead, ix, tbodyClone, fittedCount, s) ==
  LET remainingCount == Len(rows) - ix
      rowsToMove == s.options.minRowsForSplit - remainingCount
  IN IF fittedCount < 1
     THEN [st |-> popAncestor(popAncestor(removeNode(s, s.dom[tbodyClone].parent))),
           ok |-> FALSE]
     ELSE IF remainingCount < s.options.minRowsForSplit
     THEN [st |-> processRemainingRows(
                    table, sliceFrom(rows, ix - rowsToMove), thead,
                    startNewPage(popAncestor(popAncestor(
                      removeLastChildren(s, tbodyClone, rowsToMove))))),
           ok |-> TRUE]
     ELSE [st |-> processRemainingRows(
                    table, sliceFrom(rows, ix), thead,
                    startNewPage(popAncestor(popAncestor(s)))),
           ok |-> TRUE]

\* the body of the for loop of trySplitTable after
\* "tbodyClone.appendChild(rowClone)": s is the state with the row clone as
\* its last node
tableRowPlaced(table, rows, thead, ix, tbodyClone, fittedCount, s) ==
  IF scrollHeight(s) > s.maxHeight
  THEN tableRowOverflow(table, rows, thead, ix, tbodyClone, fittedCount,
                        removeNode(s, Len(s.dom)))
  ELSE tableRowsLoop(table, rows, thead, ix + 1, tbodyClone, fittedCount + 1, s)

\* the for loop of trySplitTable from row ix (0-based) on
tableRowsLoop(table, rows, thead, ix, tbodyClone, fittedCount, st) ==
  IF ix >= Len(rows) THEN [st |-> popAncestor(popAncestor(st)), ok |-> TRUE]
  ELSE tableRowPlaced(table, rows, thead, ix, tbodyClone, fittedCount,
                      appendClone(st, tbodyClone, rows[ix + 1]))

\* trySplitTable from its for loop on: s is the state with the tbody shell
\* as its last node
tableOpened(table, rows, thead, s) ==
  tableRowsLoop(table, rows, thead, 0, Len(s.dom), 0, s)

trySplitTable(table, st) ==
  LET thead == queryChild(table, {"THEAD"})
      rows == rowsOf(table)
  IN IF Len(rows) < 1 THEN [st |-> st, ok |-> FALSE]
     ELSE tableOpened(table, rows, thead, openTable(table, thead, st))

\* "Minimum height for a single item to be left alone"
minItemHeight == 70

RECURSIVE processElement(_, _)
RECURSIVE processAll(_, _)
RECURSIVE trySplit(_, _)
RECURSIVE trySplitContainer(_, _)
RECURSIVE containerOpened(_, _)
RECURSIVE containerLoop(_, _, _, _, _, _)
RECURSIVE containerOverflow(_, _, _)
RECURSIVE nestedListDone(_, _, _, _, _, _)
RECURSIVE itemPlaced(_, _, _, _, _, _, _)
RECURSIVE childSplit(_, _, _, _)
RECURSIVE childTooTall(_, _, _, _, _, _)
RECURSIVE childPlaced(_, _, _, _, _, _)
RECURSIVE listAttempt(_, _)
RECURSIVE elementOverflowed(_, _)
RECURSIVE elementPlaced(_, _)

\* "for (const remaining of ...) processElement(remaining, state)"
processAll(els, st) ==
  IF els = <<>> THEN st ELSE processAll(Tail(els), processElement(Head(els), st))

\* "if (tagName === 'TABLE') didSplit = trySplitTable(...) else if
\* (isSplittable(...)) didSplit = trySplitContainer(...)", as processElement
\* and trySplitContainer both have it
trySplit(el, st) ==
  IF el.tag = "TABLE" THEN trySplitTable(el, st)
  ELSE IF isSplittable(el) THEN trySplitContainer(el, st)
  ELSE [st |-> st, ok |-> FALSE]

\* "container.remove(); state.ancestorStack.pop(); return false"
containerFail(container, s) ==
  [st |-> popAncestor(removeNode(s, container)), ok |-> FALSE]

\* "state.ancestorStack.pop(); startNewPage(state);" and the children from
\* child k on handed to processElement
containerOverflow(element, k, s) ==
  [st |-> processAll(sliceFrom(element.children, k), startNewPage(popAncestor(s))),
   ok |-> TRUE]

\* a child that is a list itself: nestedResult is what
\* trySplitContainer(child, state) made of it
nestedListDone(element, k, container, fittedCount, fittedElements, nestedResult) ==
  IF ~nestedResult.ok
  THEN IF fittedCount = 0 THEN containerFail(container, nestedResult.st)
       ELSE containerOverflow(element, k, nestedResult.st)
  ELSE containerLoop(element, k + 1, container, fittedCount + 1, fittedElements,
                     nestedResult.st)

\* an item with a nested list, after the clone of the item without that list
\* is appended: s is the state with that clone as its last node
itemPlaced(element, k, container, fittedCount, fittedElements, nestedList, s) ==
  IF scrollHeight(s) > s.maxHeight
  THEN IF fittedCount = 0 THEN containerFail(container, removeNode(s, Len(s.dom)))
       ELSE containerOverflow(element, k, removeNode(s, Len(s.dom)))
  ELSE containerLoop(
         element, k + 1, container, fittedCount + 1,
         Append(fittedElements, Len(s.dom)),
         popAncestor(trySplitContainer(
                       nestedList,
                       pushAncestor(s, [element |-> Len(s.dom),
                                        thead |-> Undefined])).st))

\* the child that overflowed as the first of the container, after the
\* attempt to split it
childSplit(element, k, container, didSplit) ==
  IF didSplit.ok
  THEN [st |-> processAll(sliceFrom(element.children, k + 1),
                          popAncestor(didSplit.st)),
        ok |-> TRUE]
  ELSE containerFail(container, didSplit.st)

\* "if (state.measureBox.scrollHeight > state.maxHeight)" in the for loop of
\* trySplitContainer, after "childClone.remove()": s is the state with the
\* child clone removed again
childTooTall(element, k, container, fittedCount, fittedElements, s) ==
  LET isList == element.tag \in {"UL", "OL"}
      firstFittedHeight == IF fittedElements = <<>> THEN 0
                           ELSE offsetHeight(s, fittedElements[1])
  IN IF isList /\ fittedCount = 1 /\ firstFittedHeight < minItemHeight
     THEN containerFail(container, s)
     ELSE IF fittedCount = 0
     THEN childSplit(element, k, container, trySplit(element.children[k + 1], s))
     ELSE containerOverflow(element, k, s)

\* any other child, after "container.appendChild(childClone)": s is the
\* state with the child clone as its last node
childPlaced(element, k, container, fittedCount, fittedElements, s) ==
  IF scrollHeight(s) > s.maxHeight
  THEN childTooTall(element, k, container, fittedCount, fittedElements,
                    removeNode(s, Len(s.dom)))
  ELSE containerLoop(element, k + 1, container, fittedCount + 1,
                     Append(fittedElements, Len(s.dom)), s)

\* the for loop of trySplitContainer from child k (0-based) on
containerLoop(element, k, container, fittedCount, fittedElements, st) ==
  LET children == element.children
      child == children[k + 1]
      nestedList == queryChild(child, {"UL", "OL"})
  IN IF k >= Len(children) THEN [st |-> popAncestor(st), ok |-> TRUE]
     ELSE IF child.tag \in {"UL", "OL"}
     THEN nestedListDone(element, k, container, fittedCount, fittedElements,
                         trySplitContainer(child, st))
     ELSE IF nestedList # Null /\ child.tag = "LI"
     THEN itemPlaced(element, k, container, fittedCount, fittedElements, nestedList,
                     appendClone(st, container,
                                 [child EXCEPT !.children =
                                    SelectSeq(@, LAMBDA c : c # nestedList)]))
     ELSE childPlaced(element, k, container, fittedCount, fittedElements,
                      appendClone(st, container, child))

\* trySplitContainer from its for loop on: s is the state with the container
\* shell as its last node
containerOpened(element, s) ==
  containerLoop(element, 0, Len(s.dom), 0, <<>>,
                pushAncestor(s, [element |-> Len(s.dom), thead |-> Undefined]))

trySplitContainer(element, st) ==
  IF Len(element.children) = 0 THEN [st |-> st, ok |-> FALSE]
  ELSE containerOpened(element, appendShell(st, getCurrentTarget(st), element))

\* "state.getCurrentTarget().appendChild(element.cloneNode(true))"
appendWhole(element, s) == appendClone(s, getCurrentTarget(s), element)

\* a list, after the second attempt to split it, on the new page
listRetried(element, retryResult) ==
  IF ~retryResult.ok THEN appendWhole(element, retryResult.st) ELSE retryResult.st

\* a list, after the first attempt to split it
listAttempt(element, didSplit) ==
  IF didSplit.ok THEN didSplit.st
  ELSE listRetried(element, trySplitContainer(element, startNewPage(didSplit.st)))

\* any other element that overflowed, after the attempt to split it
elementOverflowed(element, didSplit) ==
  IF didSplit.ok THEN didSplit.st
  ELSE appendWhole(element, startNewPage(didSplit.st))

\* any other element, after its clone is appended: s is the state with the
\* clone as its last node
elementPlaced(element, s) ==
  IF scrollHeight(s) <= s.maxHeight THEN s
  ELSE elementOverflowed(element, trySplit(element, removeNode(s, Len(s.dom))))

\* processElement for the tags other than pre and p
processElement(element, st) ==
  IF element.tag \in {"UL", "OL"}
  THEN listAttempt(element, trySplitContainer(element, st))
  ELSE elementPlaced(element, appendWhole(element, st))

\* longest sequence of children of the source container given to paginateV2
MaxV2Blocks == 3
\* largest number of body rows of a table given to paginateV2
MaxRows == 3
\* largest minRowsForSplit option given to paginateV2
MaxMinRows == 3

V2Heading == V2El("H2", 40, 0, <<>>)

V2Img(h) == V2El("IMG", h, 0, <<>>)

\* a table of n body rows numbered 1..n, with a thead when headH > 0
V2Table(n, rowH, headH) ==
  V2El("TABLE", 0, 0,
       (IF headH > 0 THEN <<V2El("THEAD", headH, 0, <<>>)>> ELSE <<>>)
         \o <<V2El("TBODY", 0, 0, [k \in 1..n |-> V2El("TR", rowH, k, <<>>)])>>)

V2Li(id, h, children) == V2El("LI", h, id, children)

V2List(items) == V2El("UL", 0, 0, items)

FlatV2List == V2List(<<V2Li(1, 50, <<>>), V2Li(2, 50, <<>>), V2Li(3, 50, <<>>)>>)

NestedV2List ==
  V2List(<<V2Li(1, 40, <<>>),
           V2Li(2, 40, <<V2List(<<V2Li(3, 50, <<>>), V2Li(4, 50, <<>>),
                                  V2Li(5, 50, <<>>)>>)>>),
           V2Li(6, 40, <<>>)>>)

V2Shapes ==
  {V2Heading, V2Img(120), FlatV2List, NestedV2List, V2Table(2, 90, 0)}
    \cup {V2Table(n, 60, 20) : n \in 1..MaxRows}

RECURSIVE WithBase(_, _)
\* the element with every identity in it shifted by base
WithBase(el, base) ==
  [el EXCEPT !.id = @ + base,
             !.children = [k \in 1..Len(@) |-> WithBase(@[k], base)]]

\* an image, two headings in a row and an image that no longer fits
HeadingRun == <<V2Img(120), V2Heading, V2El("H3", 30, 0, <<>>), V2Img(120)>>

\* the children of the source container: their identities are distinct
V2Documents ==
  {[k \in 1..Len(doc) |-> WithBase(doc[k], 10 * k)] :
     doc \in {HeadingRun} \cup UNION {[1..n -> V2Shapes] : n \in 1..MaxV2Blocks}}

InitV2 ==
  /\ resolved \in {[DEFAULT_OPTIONS EXCEPT !.contentHeight = 200, !.pageHeight = 388,
                                           !.minRowsForSplit = m] : m \in 1..MaxMinRows}
  /\ blocks \in V2Documents
  /\ state = [pages |-> <<>>,
              dom |-> <<[el |-> createPageDiv, content |-> FALSE,
                         kids |-> <<>>, parent |-> 0]>>,
              currentPage |-> 1,
              maxHeight |-> resolved.contentHeight,
              options |-> resolved,
              ancestorStack |-> <<>>]
  /\ i = 0
  /\ pc = "loop"
  /\ result = Null
  /\ pages = <<>>
  /\ currentPage = createPage(0, resolved.orientation)
  /\ remaining = resolved.contentHeight
  /\ flatItems = <<>>
  /\ pageStartIndex = 0
  /\ folio = Null
  /\ probe = NoProbe
  /\ split = Null

\* "for (const child of originalChildren) processElement(child, state)"
ProcessChild ==
  /\ pc = "loop" /\ i < Len(blocks)
  /\ state' = processElement(blocks[i + 1], state)
  /\ i' = i + 1
  /\ UNCHANGED <<folio, blocks, resolved, pages, currentPage, remaining, pc, result,
                 probe, split, flatItems, pageStartIndex>>

\* "Save final page if it has content" and return state.pages
FinishV2 ==
  /\ pc = "loop" /\ i >= Len(blocks)
  /\ state' = IF Len(state.dom[state.currentPage].kids) > 0
              THEN finalizePage(state) ELSE state
  /\ result' = state'.pages
  /\ pc' = "done"
  /\ UNCHANGED <<folio, blocks, resolved, i, pages, currentPage, remaining,
                 probe, split, flatItems, pageStartIndex>>

NextV2 == ProcessChild \/ FinishV2

SpecV2 == InitV2 /\ [][NextV2]_vars

RECURSIVE idsIn(_, _)
\* identities of the elements with one of the tags inside el, document order
idsIn(el, tags) ==
  (IF el.tag \in tags THEN <<el.id>> ELSE <<>>)
    \o Concat([k \in 1..Len(el.children) |-> idsIn(el.children[k], tags)])

RECURSIVE idsInClone(_, _)
\* the same for a cloned tree; a shell without content is no occurrence
idsInClone(c, tags) ==
  (IF c.content THEN idsIn(c.el, tags) ELSE <<>>)
    \o Concat([k \in 1..Len(c.kids) |-> idsInClone(c.kids[k], tags)])

outputIds(tags) ==
  Concat([p \in 1..Len(state.pages) |-> idsInClone(state.pages[p].element, tags)])

sourceIds(tags) == Concat([k \in 1..Len(blocks) |-> idsIn(blocks[k], tags)])

RECURSIVE cloneHeight(_)
\* rendered height of a cloned tree
cloneHeight(c) ==
  (IF c.content THEN elementHeight(c.el) ELSE 0)
    + Sum([k \in 1..Len(c.kids) |-> cloneHeight(c.kids[k])])

\* number of pages of state.pages that startNewPage has finalized: all but
\* the one paginateV2 itself saves at the end
finalizedByStartNewPage ==
  IF pc = "done" /\ Len(state.dom[state.currentPage].kids) > 0
  THEN Len(state.pages) - 1 ELSE Len(state.pages)

RECURSIVE trailingHeadingsOf(_, _)
\* the longest run of headings at the end of a sequence of nodes
trailingHeadingsOf(dom, kids) ==
  IF kids # <<>> /\ dom[kids[Len(kids)]].el.tag \in HEADING_TAGS
  THEN Append(trailingHeadingsOf(dom, SubSeq(kids, 1, Len(kids) - 1)), kids[Len(kids)])
  ELSE <<>>

\* C23: no page finalized by startNewPage ends with a heading as its last
\* top-level child; a startNewPage in the current state leaves the trailing
\* headings of the page, in their order, at the end of the new page's
\* target; and the finished output holds every heading once, in source order.
TrailingHeadingsMove ==
  /\ \A p \in 1..finalizedByStartNewPage :
       LET kids == state.pages[p].element.kids
       IN kids = <<>> \/ kids[Len(kids)].el.tag \notin HEADING_TAGS
  /\ pc = "loop" =>
       LET \* the end of the sequence kids is the sequence trailing
           endsWith(kids, trailing) ==
             /\ Len(kids) >= Len(trailing)
             /\ SubSeq(kids, Len(kids) - Len(trailing) + 1, Len(kids)) = trailing
           moved(post) ==
             /\ endsWith(post.dom[getCurrentTarget(post)].kids,
                         trailingHeadingsOf(state.dom,
                                            state.dom[state.currentPage].kids))
             /\ attached(post.dom, getCurrentTarget(post), post.currentPage)
       IN moved(startNewPage(state))
  /\ pc = "done" => outputIds(HEADING_TAGS) = sourceIds(HEADING_TAGS)

\* a page is followed by one that starts with a heading for which the
\* earlier page had room: the heading was placed there and moved on
TrailingHeadingsMoveWitness ==
  /\ pc = "done"
  /\ \E p \in 1..(Len(state.pages) - 1) :
       LET kids == state.pages[p + 1].element.kids
       IN /\ Len(kids) >= 2
          /\ kids[1].el.tag \in HEADING_TAGS
          /\ kids[2].el.tag \in HEADING_TAGS
          /\ cloneHeight(state.pages[p].element) + cloneHeight(kids[1])
               + cloneHeight(kids[2]) <= state.maxHeight

\* C24: when paginateV2 has returned, the body rows of the output pages are
\* the body rows of the source, each once and in source order.
TableRowsKept ==
  pc = "done" => outputIds({"TR"}) = sourceIds({"TR"})

\* C25: when paginateV2 has returned, the list items of the output pages
\* are the list items of the source, each once and in source order.
ListItemsKept ==
  pc = "done" => outputIds({"LI"}) = sourceIds({"LI"})

PageHeightIsConsumed ==
  [][\A p \in (Len(pages) + 1)..Len(pages') :
       ~holdsOversized(pages'[p]) =>
         pages'[p].height =
           resolved.contentHeight
             - (IF p = Len(pages) + 1 THEN remaining ELSE resolved.contentHeight)]_vars

(***************************************************************************)
(* The web component FolioElement (folio-element.ts)                       *)
(*                                                                         *)
(* folio is the element: its private fields, its attributes, its light     *)
(* DOM and the doPaginate runs that are suspended at an await.  Nodes are  *)
(* counted, not named: children is the number of content nodes that are    *)
(* children of the element, originalContent the number of nodes of the     *)
(* captured fragment (the field is Null when it is null).  The folio-measure     *)
(* containers are left out of the count: captureAndPaginate and refresh    *)
(* skip them, and connectedCallback finds a folio-pages child whenever one *)
(* can be present.                                                         *)
(***************************************************************************)

\* the largest number of content nodes the page puts into the element
MaxContent == 2

\* what getAttribute returns for an attribute that is absent
NoAttribute == "null"

\* the values the page gives to the attribute page-height
PageHeightAttrs == {NoAttribute, "400", "600"}

\* the values the page gives to the attribute algorithm
AlgorithmAttrs == {NoAttribute, "v1", "v2"}

\* parseInt on the attribute values in use
parseInt(s) == CASE s = "400" -> 400 [] s = "600" -> 600 [] OTHER -> Undefined

\* the options read from the attributes
getOptions(f) ==
  IF f.attrs.pageHeight # NoAttribute
  THEN [pageHeight |-> parseInt(f.attrs.pageHeight)]
  ELSE [option \in {} |-> Undefined]

\* getAttribute('algorithm') || 'v2'
algorithmOf(f) == IF f.attrs.algorithm = NoAttribute THEN "v2" ELSE f.attrs.algorithm

\* the guard of doPaginate: no content, no container, or a run in flight
doPaginateBlockedUnguarded(f) ==
  \/ f.originalContent = Null
  \/ ~f.pagesContainer

doPaginateBlocked(f) ==
  \/ f.originalContent = Null
  \/ ~f.pagesContainer
  \/ f.isPaginating

\* the finally block of doPaginate, for the run at position k of f.runs
\* whose events are ev
finallyStuck(f, k, ev) ==
  [f EXCEPT !.runs = SubSeq(@, 1, k - 1) \o SubSeq(@, k + 1, Len(@)),
            !.lastRun = [events |-> ev],
            !.contentObserver = IF @ = "paused" THEN "observing" ELSE @]

finally(f, k, ev) ==
  [f EXCEPT !.isPaginating = FALSE,
            !.runs = SubSeq(@, 1, k - 1) \o SubSeq(@, k + 1, Len(@)),
            !.lastRun = [events |-> ev],
            !.contentObserver = IF @ = "paused" THEN "observing" ELSE @]

\* the catch block of doPaginate: the events of the run after it
catch(ev) == Append(ev, "error")

\* doPaginate up to its first await; throws says whether a step of the
\* synchronous part throws
doPaginate(f, throws) ==
  IF doPaginateBlocked(f) \/ f.originalContent.childNodes = 0
  THEN f
  ELSE LET started ==
             [f EXCEPT !.isPaginating = TRUE,
                       !.contentObserver = IF @ = "observing" THEN "paused" ELSE @,
                       !.runs = Append(@, [pos |-> "frame",
                                           options |-> getOptions(f),
                                           content |-> f.originalContent,
                                           events |-> <<>>])]
       IN IF throws
          THEN finally(started, Len(started.runs), catch(<<>>))
          ELSE started

\* renderPagesV2: returns when there is no container
renderPagesV2(f, options) ==
  IF ~f.pagesContainer THEN f
  ELSE [f EXCEPT !.rendered = [options |-> options, algorithm |-> "v2"]]

\* renderPages: returns when there is no container or no content
renderPages(f, options) ==
  IF ~f.pagesContainer \/ f.originalContent = Null THEN f
  ELSE [f EXCEPT !.rendered = [options |-> options, algorithm |-> "v1"]]

InitElement ==
  /\ blocks = <<>>
  /\ resolved = Null
  /\ i = 0
  /\ pages = <<>>
  /\ currentPage = Null
  /\ remaining = 0
  /\ pc = "element"
  /\ result = Null
  /\ probe = Null
  /\ split = Null
  /\ flatItems = <<>>
  /\ pageStartIndex = 0
  /\ state = Null
  /\ \E n \in 0..MaxContent, h \in PageHeightAttrs, a \in AlgorithmAttrs :
       folio = [isConnected |-> FALSE,
                originalContent |-> Null,
                pagesContainer |-> FALSE,
                isPaginating |-> FALSE,
                contentObserver |-> "none",
                debounceTimer |-> FALSE,
                attrs |-> [pageHeight |-> h, algorithm |-> a],
                children |-> n,
                hasPagesChild |-> FALSE,
                runs |-> <<>>,
                rendered |-> Null,
                lastRun |-> Null]

ElementUnchanged ==
  UNCHANGED <<blocks, resolved, i, pages, currentPage, remaining, pc, result,
              probe, split, flatItems, pageStartIndex, state>>

\* the element is inserted into the document
connectedCallback ==
  /\ pc = "element"
  /\ ~folio.isConnected
  /\ LET n == folio.children + (IF folio.hasPagesChild THEN 1 ELSE 0)
         created == [folio EXCEPT !.isConnected = TRUE,
                                  !.pagesContainer = TRUE,
                                  !.hasPagesChild = TRUE,
                                  !.rendered = Null]
     IN IF n > 0
        THEN \E throws \in BOOLEAN :
               folio' = doPaginate([created EXCEPT !.originalContent = [childNodes |-> n],
                                                   !.children = 0], throws)
        ELSE folio' = [created EXCEPT !.contentObserver = "observing"]
  /\ ElementUnchanged

\* the element is removed from the document
disconnectedCallback ==
  /\ pc = "element"
  /\ folio.isConnected
  /\ folio' = [folio EXCEPT !.isConnected = FALSE,
                            !.originalContent = Null,
                            !.pagesContainer = FALSE,
                            !.rendered = Null,
                            !.contentObserver = "none",
                            !.debounceTimer = FALSE]
  /\ ElementUnchanged

\* the page sets an observed attribute
attributeChangedCallback ==
  /\ pc = "element"
  /\ \E h \in PageHeightAttrs, a \in AlgorithmAttrs, throws \in BOOLEAN :
       /\ [pageHeight |-> h, algorithm |-> a] # folio.attrs
       /\ h = folio.attrs.pageHeight \/ a = folio.attrs.algorithm
       /\ LET set == [folio EXCEPT !.attrs = [pageHeight |-> h, algorithm |-> a]]
          IN folio' = IF set.isConnected /\ ~set.isPaginating
                         /\ set.originalContent # Null
                      THEN doPaginate(set, throws)
                      ELSE set
  /\ ElementUnchanged

\* a content node is added to the element; the observer, when it observes,
\* starts the debounce timer unless a run is in flight
ContentAdded ==
  /\ pc = "element"
  /\ folio.children < MaxContent
  /\ folio' = [folio EXCEPT !.children = @ + 1,
                            !.debounceTimer =
                               IF folio.contentObserver = "observing"
                                  /\ ~folio.isPaginating
                               THEN TRUE ELSE @]
  /\ ElementUnchanged

\* the debounce timer fires
captureAndPaginate ==
  /\ pc = "element"
  /\ folio.debounceTimer
  /\ LET fired == [folio EXCEPT !.debounceTimer = FALSE]
         captured == [fired EXCEPT !.originalContent = [childNodes |-> fired.children],
                                   !.children = 0]
     IN \E throws \in BOOLEAN :
          folio' = IF fired.isPaginating THEN fired
                   ELSE IF captured.originalContent.childNodes > 0
                        THEN doPaginate(captured, throws)
                        ELSE captured
  /\ ElementUnchanged

\* the page calls refresh()
refresh ==
  /\ pc = "element"
  /\ LET orphan == folio.hasPagesChild /\ ~folio.pagesContainer
         captured ==
           [folio EXCEPT !.originalContent =
                            [childNodes |->
                               folio.children + (IF orphan THEN 1 ELSE 0)],
                         !.children = 0,
                         !.pagesContainer = TRUE,
                         !.hasPagesChild = TRUE]
     IN \E throws \in BOOLEAN : folio' = doPaginate(captured, throws)
  /\ ElementUnchanged

\* the page calls paginate()
ElementPaginate ==
  /\ pc = "element"
  /\ \E throws \in BOOLEAN : folio' = doPaginate(folio, throws)
  /\ ElementUnchanged

\* the animation frame a run waits for arrives: with v2 the run paginates,
\* renders and ends; with v1 it calls paginate and waits for its promise
RunFrame ==
  /\ pc = "element"
  /\ \E k \in 1..Len(folio.runs), throws \in BOOLEAN :
       LET run == folio.runs[k]
       IN /\ run.pos = "frame"
          /\ folio' =
               IF algorithmOf(folio) = "v2"
               THEN IF throws
                    THEN finally(folio, k, catch(run.events))
                    ELSE finally(renderPagesV2(folio, run.options), k,
                                 Append(run.events, "paginated"))
               ELSE [folio EXCEPT !.runs[k].pos = "paginate"]
  /\ ElementUnchanged

\* the promise of paginate a v1 run waits for is settled
RunPaginated ==
  /\ pc = "element"
  /\ \E k \in 1..Len(folio.runs), throws \in BOOLEAN :
       LET run == folio.runs[k]
       IN /\ run.pos = "paginate"
          /\ folio' =
               IF throws
               THEN finally(folio, k, catch(run.events))
               ELSE finally(renderPages(folio, run.options), k,
                            Append(run.events, "paginated"))
  /\ ElementUnchanged

NextElement ==
  \/ connectedCallback
  \/ disconnectedCallback
  \/ attributeChangedCallback
  \/ ContentAdded
  \/ captureAndPaginate
  \/ refresh
  \/ ElementPaginate
  \/ RunFrame
  \/ RunPaginated

SpecElement == InitElement /\ [][NextElement]_vars

\* the browser delivers every animation frame, and the promise of paginate,
\* which awaits nothing, is settled
SpecElementFair ==
  /\ InitElement /\ [][NextElement]_vars
  /\ WF_vars(RunFrame) /\ WF_vars(RunPaginated)

\* C33: at most one doPaginate run is in flight at any time, and a run is
\* in flight only while isPaginating is set.
OneRunAtATime ==
  pc = "element" =>
    /\ Len(folio.runs) <= 1
    /\ folio.runs # <<>> => folio.isPaginating

\* a run is in flight on a clone of content that refresh() or a reconnect
\* has since replaced: the doPaginate call that came with the new content
\* returned at the guard
OneRunAtATimeWitness ==
  /\ pc = "element"
  /\ Len(folio.runs) = 1
  /\ folio.pagesContainer
  /\ folio.originalContent # Null
  /\ folio.originalContent.childNodes # 0
  /\ folio.originalContent # folio.runs[1].content

\* C34: every doPaginate run that has started ends: isPaginating is set
\* exactly while a run is in flight, a run in flight is followed by a state
\* with isPaginating reset, and a run that has ended has dispatched exactly
\* one event, 'paginated' or 'error'.
RunEndsWithOneEvent ==
  /\ [](pc = "element" =>
          /\ folio.runs = <<>> => ~folio.isPaginating
          /\ folio.lastRun # Null =>
               /\ Len(folio.lastRun.events) = 1
               /\ folio.lastRun.events[1] \in {"paginated", "error"})
  /\ (pc = "element" /\ folio.isPaginating)
       ~> (pc = "element" /\ ~folio.isPaginating)

\* a run has ended with the event 'error' and nothing is in flight
RunEndsWithOneEventWitness ==
  /\ pc = "element"
  /\ folio.lastRun # Null
  /\ folio.lastRun.events = <<"error">>
  /\ folio.runs = <<>>
  /\ ~folio.isPaginating

\* C35: an attribute change that arrives while a run is in flight is not
\* lost: a connected element with a run in flight whose options are no
\* longer those of the attributes comes to show pages rendered with the
\* options of the attributes, unless it is disconnected first.
AttributeChangeNotLost ==
  (/\ pc = "element"
   /\ folio.isConnected
   /\ folio.runs # <<>>
   /\ folio.runs[1].options # getOptions(folio))
    ~> (\/ ~folio.isConnected
        \/ /\ folio.rendered # Null
           /\ folio.rendered.options = getOptions(folio))

====
